---- MODULE Spec2Model ----
(***************************************************************************)
(* A model of the amp-web-push messaging substrate.                        *)
(*                                                                         *)
(* WindowMessenger (extensions/amp-web-push/0.1/window-messenger.js) is    *)
(* modelled as it is written: every handler is a function from the state   *)
(* before the handler to the state after it, and an action applies one     *)
(* whole handler (together with the promise reactions that the microtask   *)
(* checkpoint runs right after it).                                        *)
(*                                                                         *)
(* Two windows exist, each holding one WindowMessenger instance; a third   *)
(* party (origin "oX", or another page of a known origin) may post         *)
(* arbitrary window messages to either of them.                            *)
(***************************************************************************)
EXTENDS Integers, Sequences, FiniteSets, TLC

\* ------------------------------------------------------------------ bounds
\* listen()/connect() calls made over all instances
MaxCalls == 3
\* window messages posted by third parties
MaxNoise == 2
\* send() and reply calls made by the applications over all instances
MaxSends == 3
\* on() calls made by the applications over all instances
MaxOn == 2
\* service workers that may come to control the page
MaxWorkers == 2
\* waitUntilWorkerControlsPage() promises made (by unicast(), listen() or alone)
MaxWaits == 3
\* listener records ever added to a WorkerMessengerReplyBuffer
MaxRecords == 3
\* queries the AMP page makes of its helper frame
MaxQueries == 1

\* --------------------------------------------------------------- universe
M == {"A", "B"}

Other(m) == IF m = "A" THEN "B" ELSE "A"

\* The origin of the window an instance lives in (options.windowContext).
WinOrigin(m) == IF m = "A" THEN "oA" ELSE "oB"

\* A URL string is modelled by its origin part and the rest (path, query).
Url(o, p) == <<o, p>>

Absent == <<"absent", "">>

Wildcard == <<"*", "">>

\* parseUrl(u).origin: scheme+host+port only, the path and query dropped.
parseUrlOrigin(u) == <<u[1], "">>

\* Ports are the two ends of a channel; channel numbers below zero are
\* channels created by third parties.
NullPort == <<0, 0>>

UndefinedPort == <<0, 1>>

IsPort(p) == p[1] # 0

Peer(p) == <<p[1], 3 - p[2]>>

\* Names that no two instances share: the n-th channel an instance creates,
\* and the n-th id it draws (crypto.getRandomValues: ids do not collide).
Tag(m, n) == 2 * n + (IF m = "A" THEN 0 ELSE 1)

Ports == {<<c, e>> : c \in ((0 - MaxNoise)..Tag("B", MaxCalls)) \ {0}, e \in 1..2}

CONNECT_HANDSHAKE == "topic-connect-handshake"

NOTIFICATION_PERMISSION_STATE == "topic-notification-permission-state"

SERVICE_WORKER_STATE == "topic-service-worker-state"

SERVICE_WORKER_REGISTRATION == "topic-service-worker-registration"

SERVICE_WORKER_QUERY == "topic-service-worker-query"

\* the topics the AMP page and its helper frame exchange
HelperTopics ==
  {NOTIFICATION_PERMISSION_STATE, SERVICE_WORKER_STATE,
   SERVICE_WORKER_REGISTRATION, SERVICE_WORKER_QUERY}

AppTopics == {"t1"}

\* every topic an application may name in send() or on()
AllTopics == AppTopics \cup {"t2"}

\* what an application may pass to a reply function
ReplyData == {"d2", "d3", "d4"}

Data == {"d1", "d2"}

Callbacks == {"cb1"}

\* this.listeners[topic] when no listener was ever registered for topic
NoListeners == <<"undefined">>

Range(f) == {f[i] : i \in DOMAIN f}

\* The service workers of the helper frame's scope; 0 stands for a null
\* navigator.serviceWorker.controller.
Workers == 1..MaxWorkers

\* the commands and payloads of worker messages
Commands == {"c1", "c2"}

Payloads == {"p1", "p2"}

\* the payloads the AMP page hands to queryServiceWorker_
QueryPayloads == {"null", "p1"}

\* what the last step of the worker side showed: for the delivery of a worker
\* message its data and the listener records invoked (with the payload handed
\* to each), in order; nothing for any other step
WEvt(op, command, payload) ==
  [op |-> op, command |-> command, payload |-> payload, inv |-> <<>>]

WQuiet == WEvt("", "", "")

Remove(seq, x) == SelectSeq(seq, LAMBDA y : y # x)

\* A callback of a listener record is named by a pair: an application's
\* callback by 0 and its name, the helper frame's by the id and the topic
\* its reply function is bound to.
Callback(name) == <<0, name>>

\* What the reply registry holds for a command: nothing (undefined) until
\* the first addListener, then an array of records, and null after
\* deleteListenerRecords.
NoRecords == [is |-> "undefined", list |-> <<>>]

NullRecords == [is |-> "null", list |-> <<>>]

\* ------------------------------------------------------------------ state
VARIABLES
  listening, connecting, connected, channel, messagePort,
  onListenProc, onConnectProc, onChannelProc,
  listenCalls, connectCalls, winObs, winq, handlers, portq,
  messages, listeners, promises, held,
  thrown, hsWinSent, hsPortSent, evt,
  nextChan, nextId, callsLeft, noiseLeft, sendsLeft, onLeft,
  controller, workerState, ccListeners, scListeners, msgObservers,
  waits, replies, posted, nextRecord, wevt,
  queries, registrations,
  permission, update, widgetCalls,
  dialog, interacted, former

vars == <<listening, connecting, connected, channel, messagePort,
          onListenProc, onConnectProc, onChannelProc,
          listenCalls, connectCalls, winObs, winq, handlers, portq,
          messages, listeners, promises, held,
          thrown, hsWinSent, hsPortSent, evt,
          nextChan, nextId, callsLeft, noiseLeft, sendsLeft, onLeft,
          controller, workerState, ccListeners, scListeners, msgObservers,
          waits, replies, posted, nextRecord, wevt,
          queries, registrations,
          permission, update, widgetCalls,
          dialog, interacted, former>>

\* The state as one record: the handlers below map such a record to the next.
State ==
  [listening |-> listening, connecting |-> connecting, connected |-> connected,
   channel |-> channel, messagePort |-> messagePort,
   onListenProc |-> onListenProc, onConnectProc |-> onConnectProc,
   onChannelProc |-> onChannelProc,
   listenCalls |-> listenCalls, connectCalls |-> connectCalls,
   winObs |-> winObs, winq |-> winq, handlers |-> handlers, portq |-> portq,
   messages |-> messages, listeners |-> listeners, promises |-> promises,
   held |-> held, thrown |-> thrown, hsWinSent |-> hsWinSent,
   hsPortSent |-> hsPortSent, evt |-> evt,
   nextChan |-> nextChan, nextId |-> nextId, callsLeft |-> callsLeft,
   noiseLeft |-> noiseLeft, sendsLeft |-> sendsLeft, onLeft |-> onLeft,
   controller |-> controller, workerState |-> workerState,
   ccListeners |-> ccListeners, scListeners |-> scListeners,
   msgObservers |-> msgObservers, waits |-> waits, replies |-> replies,
   posted |-> posted, nextRecord |-> nextRecord, wevt |-> wevt,
   queries |-> queries, registrations |-> registrations,
   permission |-> permission, update |-> update, widgetCalls |-> widgetCalls,
   dialog |-> dialog, interacted |-> interacted, former |-> former]

Apply(t) ==
  /\ listening' = t.listening /\ connecting' = t.connecting
  /\ connected' = t.connected /\ channel' = t.channel
  /\ messagePort' = t.messagePort
  /\ onListenProc' = t.onListenProc /\ onConnectProc' = t.onConnectProc
  /\ onChannelProc' = t.onChannelProc
  /\ listenCalls' = t.listenCalls /\ connectCalls' = t.connectCalls
  /\ winObs' = t.winObs /\ winq' = t.winq /\ handlers' = t.handlers
  /\ portq' = t.portq
  /\ messages' = t.messages /\ listeners' = t.listeners
  /\ promises' = t.promises /\ held' = t.held
  /\ thrown' = t.thrown /\ hsWinSent' = t.hsWinSent
  /\ hsPortSent' = t.hsPortSent /\ evt' = t.evt
  /\ nextChan' = t.nextChan /\ nextId' = t.nextId /\ callsLeft' = t.callsLeft
  /\ noiseLeft' = t.noiseLeft /\ sendsLeft' = t.sendsLeft /\ onLeft' = t.onLeft
  /\ controller' = t.controller /\ workerState' = t.workerState
  /\ ccListeners' = t.ccListeners /\ scListeners' = t.scListeners
  /\ msgObservers' = t.msgObservers /\ waits' = t.waits
  /\ replies' = t.replies /\ posted' = t.posted
  /\ nextRecord' = t.nextRecord /\ wevt' = t.wevt
  /\ queries' = t.queries /\ registrations' = t.registrations
  /\ permission' = t.permission /\ update' = t.update
  /\ widgetCalls' = t.widgetCalls
  /\ dialog' = t.dialog /\ interacted' = t.interacted
  /\ former' = t.former

\* What the last step showed to the outside: for a listen() or connect() call
\* the instance and how the returned promise settled at call time, for a
\* delivery the receiving instance, the window message (ev) or the envelope
\* (env) delivered and the application callbacks that were invoked, in order.
NoEvent == [origin |-> <<"", "">>, topic |-> "", port |-> NullPort]

NoEnvelope == [id |-> 0, topic |-> "", data |-> "", isReply |-> FALSE]

Evt(op, m, res) ==
  [op |-> op, m |-> m, res |-> res, ev |-> NoEvent, env |-> NoEnvelope, inv |-> <<>>]

Quiet == Evt("", "", "")

\* The permission dialog before its script ran: how it was opened, what the
\* user answered, the promise of its send() and the calls of window.close()
\* and of the redirect back.
NoDialog ==
  [mode |-> "none", permission |-> "none", sent |-> 0, reacted |-> FALSE,
   closes |-> 0, redirects |-> 0]

\* Neither subscribe() nor resumeSubscribingForPushNotifications() was
\* called: the promise of onNotificationPermissionRequestInteractedMessage()
\* does not exist, no permission was observed, no reply function was called,
\* no error was thrown, no query is awaited (q) and subscribeForPushRemotely_()
\* was not called (sent).
NotSubscribing ==
  [state |-> "none", permission |-> "none", replies |-> 0, thrown |-> FALSE,
   q |-> 0, sent |-> 0]

\* updateWidgetVisibilities() was not called: no stage of it is waiting, no
\* query of it was made (q: the queries for the permission, the worker's
\* state and the subscription), no promise was returned
NoUpdate == [stage |-> "idle", q |-> <<0, 0, 0>>, promise |-> "none"]

\* The state after the constructor ran in both windows.
Constructed ==
  /\ listening = [m \in M |-> FALSE]
  /\ connecting = [m \in M |-> FALSE]
  /\ connected = [m \in M |-> FALSE]
  /\ channel = [m \in M |-> 0]
  /\ messagePort = [m \in M |-> NullPort]
  /\ onListenProc = [m \in M |-> 0]
  /\ onConnectProc = [m \in M |-> 0]
  /\ onChannelProc = [m \in M |-> FALSE]
  /\ listenCalls = [m \in M |-> <<>>]
  /\ connectCalls = [m \in M |-> <<>>]
  /\ winObs = [m \in M |-> <<>>]
  /\ winq = [m \in M |-> <<>>]
  /\ handlers = [p \in Ports |-> <<>>]
  /\ portq = [p \in Ports |-> <<>>]
  /\ messages = [m \in M |-> <<>>]
  /\ listeners = [m \in M |-> [t \in AllTopics \cup HelperTopics \cup {CONNECT_HANDSHAKE} |-> NoListeners]]
  /\ promises = [m \in M |-> <<>>]
  /\ held = [m \in M |-> {}]
  /\ thrown = [m \in M |-> FALSE]
  /\ hsWinSent = [m \in M |-> 0]
  /\ hsPortSent = [m \in M |-> 0]
  /\ evt = Quiet
  /\ nextChan = [m \in M |-> 1]
  /\ nextId = [m \in M |-> 1]
  /\ controller = 0
  /\ workerState = [w \in Workers |-> "installing"]
  /\ ccListeners = <<>>
  /\ scListeners = [w \in Workers |-> <<>>]
  /\ msgObservers = 0
  /\ waits = <<>>
  /\ replies = [c \in Commands |-> NoRecords]
  /\ posted = <<>>
  /\ nextRecord = 1
  /\ wevt = WQuiet
  /\ queries = <<>>
  /\ registrations = <<>>
  /\ permission = "default"
  /\ update = NoUpdate
  /\ widgetCalls = <<>>
  /\ dialog = NoDialog
  /\ interacted = NotSubscribing
  /\ former = <<>>

\* The calls and third-party messages a run may still see.  Init explores the
\* handshake in depth and a short exchange after it, MsgInit a short
\* handshake and the exchanges that follow it in depth.
Init ==
  /\ Constructed
  /\ callsLeft = MaxCalls
  /\ noiseLeft = MaxNoise
  /\ sendsLeft = MaxSends - 1
  /\ onLeft = MaxOn - 1

MsgInit ==
  /\ Constructed
  /\ callsLeft = MaxCalls - 1
  /\ noiseLeft = MaxNoise - 1
  /\ sendsLeft = MaxSends
  /\ onLeft = MaxOn

\* ExchangeInit: a short handshake, and one exchange more than MsgInit
ExchangeInit ==
  /\ Constructed
  /\ callsLeft = MaxCalls - 1
  /\ noiseLeft = MaxNoise - 1
  /\ sendsLeft = MaxSends + 1
  /\ onLeft = MaxOn - 1

\* ------------------------------------------------------- message channel
\* port.postMessage(env): the envelope is queued at the other end of the
\* channel.  The far end of a third party's channel is outside the model.
postMessage(s, p, env) ==
  IF Peer(p) \in Ports /\ Peer(p)[1] > 0
  THEN [s EXCEPT !.portq[Peer(p)] = Append(@, env)]
  ELSE s

\* new Promise(resolve => this.messages[id] = {message, topic, promiseResolver})
register(s, m, kind, id, topic, data) ==
  LET r == Len(s.promises[m]) + 1
      \* kind and connected record the call that made the promise: which
      \* method it was, and the connected flag it found
      pr == [kind |-> kind, connected |-> s.connected[m], id |-> id,
             state |-> "pending", value |-> "", fn |-> <<0, "">>, n |-> 0]
      entry == [message |-> data, topic |-> topic, promiseResolver |-> r]
  IN [s EXCEPT !.promises[m] = Append(@, pr),
               !.messages[m] = (id :> entry) @@ @]

\* promiseResolver([data, replyFn]); a settled promise keeps its value
resolve(s, m, r, data, fn) ==
  [s EXCEPT !.promises[m][r] =
     IF @.state = "pending"
     THEN [@ EXCEPT !.state = "resolved", !.value = data, !.fn = fn, !.n = @ + 1]
     ELSE [@ EXCEPT !.n = @ + 1]]

\* send(topic, data): a TypeError when no port is bound
send(s, m, topic, data) ==
  IF ~IsPort(s.messagePort[m])
  THEN [s EXCEPT !.thrown[m] = TRUE]
  ELSE LET id == Tag(m, s.nextId[m])
           payload == [id |-> id, topic |-> topic, data |-> data, isReply |-> FALSE]
           s1 == postMessage(s, s.messagePort[m], payload)
           s2 == [s1 EXCEPT !.nextId[m] = @ + 1,
                            !.hsPortSent[m] =
                               IF topic = CONNECT_HANDSHAKE THEN @ + 1 ELSE @]
       IN register(s2, m, "send", id, topic, data)

\* A faulty variant of sendReply_ that posts the reply but keeps no pending
\* exchange for the answer to it: C11 does not hold of it.
sendReplyForgetting(s, m, id, topic, data) ==
  IF ~IsPort(s.messagePort[m])
  THEN [s EXCEPT !.thrown[m] = TRUE]
  ELSE LET payload == [id |-> id, topic |-> topic, data |-> data, isReply |-> TRUE]
           s1 == postMessage(s, s.messagePort[m], payload)
           pr == [kind |-> "reply", connected |-> s.connected[m], id |-> id,
                  state |-> "pending", value |-> "", fn |-> <<0, "">>, n |-> 0]
       IN [s1 EXCEPT !.promises[m] = Append(@, pr)]

\* sendReply_(id, topic, data): id and topic were bound when the reply
\* function was handed out
sendReply_(s, m, id, topic, data) ==
  IF ~IsPort(s.messagePort[m])
  THEN [s EXCEPT !.thrown[m] = TRUE]
  ELSE LET payload == [id |-> id, topic |-> topic, data |-> data, isReply |-> TRUE]
           s1 == postMessage(s, s.messagePort[m], payload)
       IN register(s1, m, "reply", id, topic, data)

\* on(topic, callback)
on(s, m, topic, callback) ==
  [s EXCEPT !.listeners[m][topic] =
     IF @ # NoListeners THEN Append(@, callback) ELSE <<callback>>]

\* off(topic, callback): "undefined" stands for a call without a callback.
\* With a callback the list of the topic is searched without a check that
\* it exists: listeners[topic].indexOf is a TypeError on a topic that has no
\* list.  splice removes the first occurrence from the list in place.
off(s, m, topic, callback) ==
  LET list == s.listeners[m][topic]
  IN IF callback # "undefined"
     THEN IF list = NoListeners
          THEN [s EXCEPT !.thrown[m] = TRUE]
          ELSE IF \E i \in 1..Len(list) : list[i] = callback
          THEN LET callbackIndex == CHOOSE i \in 1..Len(list) :
                                      /\ list[i] = callback
                                      /\ \A j \in 1..(i - 1) : list[j] # callback
               IN [s EXCEPT !.listeners[m][topic] =
                     SubSeq(list, 1, callbackIndex - 1)
                       \o SubSeq(list, callbackIndex + 1, Len(list))]
          ELSE s
     ELSE [s EXCEPT !.listeners[m][topic] = NoListeners]

\* What an application callback does when it is invoked.  "cbOff" is a
\* listener that unregisters itself, off(topic, itself), as a one-shot
\* listener does; the other callbacks change nothing of the messenger.
callListenerOf(s, m, topic, listener) ==
  IF listener = "cbOff" THEN off(s, m, topic, listener) ELSE s

\* for (let i = 0; i < listeners.length; i++) listener(data, replyFn):
\* the loop reads the list that on() and off() change in place, so it sees
\* what a listener did to the list.  What the model keeps of an invocation
\* is that it ran (evt.inv) and that the application now holds the reply
\* function it was given (held).
RECURSIVE callListeners(_, _, _, _)
callListeners(s, m, message, i) ==
  LET list == s.listeners[m][message.topic]
  IN IF i > Len(list)
     THEN s
     ELSE LET listener == list[i]
              s1 == [s EXCEPT !.evt.inv = Append(@, listener),
                              !.held[m] = @ \cup {<<message.id, message.topic>>}]
          IN callListeners(callListenerOf(s1, m, message.topic, listener),
                           m, message, i + 1)

\* A faulty variant of onChannelMessageReceived_ that gives a reply to the
\* oldest pending exchange, whatever id it carries: C12 does not hold of it.
onChannelMessageReceivedInOrder(s, m, message) ==
  IF DOMAIN s.messages[m] # {} /\ message.isReply
  THEN LET oldest == CHOOSE i \in DOMAIN s.messages[m] :
                       \A j \in DOMAIN s.messages[m] :
                         s.messages[m][i].promiseResolver
                           <= s.messages[m][j].promiseResolver
           existingMessage == s.messages[m][oldest]
           s1 == [s EXCEPT !.messages[m] =
                    [i \in (DOMAIN @) \ {oldest} |-> @[i]]]
           fn == <<oldest, existingMessage.topic>>
           s2 == resolve(s1, m, existingMessage.promiseResolver, message.data, fn)
       IN [s2 EXCEPT !.held[m] = @ \cup {fn}]
  ELSE LET ls == s.listeners[m][message.topic]
       IN IF ls = NoListeners
          THEN s
          ELSE [s EXCEPT !.evt.inv = @ \o ls,
                         !.held[m] = IF ls = <<>> THEN @
                                     ELSE @ \cup {<<message.id, message.topic>>}]

\* A faulty variant of onChannelMessageReceived_ that leaves a matched
\* exchange in the pending map: C9 does not hold of it.
onChannelMessageReceivedKeeping(s, m, message) ==
  IF message.id \in DOMAIN s.messages[m] /\ message.isReply
  THEN LET existingMessage == s.messages[m][message.id]
           fn == <<message.id, existingMessage.topic>>
           s2 == resolve(s, m, existingMessage.promiseResolver, message.data, fn)
       IN [s2 EXCEPT !.held[m] = @ \cup {fn}]
  ELSE LET ls == s.listeners[m][message.topic]
       IN IF ls = NoListeners
          THEN s
          ELSE [s EXCEPT !.evt.inv = @ \o ls,
                         !.held[m] = IF ls = <<>> THEN @
                                     ELSE @ \cup {<<message.id, message.topic>>}]

\* onChannelMessageReceived_(event)
onChannelMessageReceived_(s, m, message) ==
  IF message.id \in DOMAIN s.messages[m] /\ message.isReply
  THEN LET existingMessage == s.messages[m][message.id]
           s1 == [s EXCEPT !.messages[m] =
                    [i \in (DOMAIN @) \ {message.id} |-> @[i]]]
           fn == <<message.id, existingMessage.topic>>
           s2 == resolve(s1, m, existingMessage.promiseResolver, message.data, fn)
       IN [s2 EXCEPT !.held[m] = @ \cup {fn}]
  ELSE IF s.listeners[m][message.topic] = NoListeners
       THEN s
       ELSE callListeners(s, m, message, 1)

\* ------------------------------------------------------------- handshake
\* A faulty variant of isAllowedOrigin_ that accepts every origin once the
\* list names any: C2 does not hold of it.
isAllowedOriginAny(origin, allowedOrigins) ==
  Len(allowedOrigins) > 0

\* isAllowedOrigin_(origin, allowedOrigins)
isAllowedOrigin_(origin, allowedOrigins) ==
  LET normalizedOrigin == parseUrlOrigin(origin)
  IN \E i \in 1..Len(allowedOrigins) :
       parseUrlOrigin(allowedOrigins[i]) = normalizedOrigin

\* A faulty variant of listenThen that answers no handshake: C1 does not
\* hold of it.
listenThenSilent(s, m, k) ==
  [s EXCEPT !.connected[m] = TRUE,
            !.listenCalls[m][k].outer = "resolved"]

\* listen(allowedOrigins).then(...): runs in the microtask checkpoint that
\* follows the accepting observer
listenThen(s, m, k) ==
  LET s1 == send(s, m, CONNECT_HANDSHAKE, "null")
  IN [s1 EXCEPT !.connected[m] = TRUE,
                !.listenCalls[m][k].outer = "resolved"]

\* A faulty variant of listen that does not look at the connected flag: C6
\* does not hold of it.
listenUnguarded(s, m, arg) ==
  IF s.listening[m]
  THEN [s EXCEPT !.evt = Evt("listen", m, "Already listening for connections.")]
  ELSE IF ~arg.isArray
  THEN [s EXCEPT !.evt = Evt("listen", m, "allowedOrigins should be a string array")]
  ELSE LET k == Len(s.listenCalls[m]) + 1
           call == [allowed |-> arg.list, inner |-> "pending", outer |-> "pending"]
       IN [s EXCEPT !.listenCalls[m] = Append(@, call),
                    !.onListenProc[m] = k,
                    !.winObs[m] = Append(@, k),
                    !.evt = Evt("listen", m, "pending")]

\* listen(allowedOrigins): arg.isArray is Array.isArray(allowedOrigins)
listen(s, m, arg) ==
  IF s.connected[m]
  THEN [s EXCEPT !.evt = Evt("listen", m, "Already connected.")]
  ELSE IF s.listening[m]
  THEN [s EXCEPT !.evt = Evt("listen", m, "Already listening for connections.")]
  ELSE IF ~arg.isArray
  THEN [s EXCEPT !.evt = Evt("listen", m, "allowedOrigins should be a string array")]
  ELSE LET k == Len(s.listenCalls[m]) + 1
           call == [allowed |-> arg.list, inner |-> "pending", outer |-> "pending"]
       IN [s EXCEPT !.listenCalls[m] = Append(@, call),
                    !.onListenProc[m] = k,
                    !.winObs[m] = Append(@, k),
                    !.evt = Evt("listen", m, "pending")]

\* onListenConnectionMessageReceived_ as bound by the k-th listen() call
onListenConnectionMessageReceived_(s, m, k, ev) ==
  LET call == s.listenCalls[m][k]
  IN IF ~isAllowedOrigin_(ev.origin, call.allowed)
     THEN s
     ELSE IF ev.topic # CONNECT_HANDSHAKE
     THEN s
     ELSE LET s1 == [s EXCEPT !.winObs[m] = Remove(@, s.onListenProc[m])]
              port == IF ev.port = NullPort THEN UndefinedPort ELSE ev.port
              s2 == [s1 EXCEPT !.messagePort[m] = port,
                               !.onChannelProc[m] = TRUE]
          IN IF ~IsPort(port)
             \* messagePorts[0] is undefined: addEventListener throws
             THEN [s2 EXCEPT !.thrown[m] = TRUE]
             ELSE LET s3 == [s2 EXCEPT !.handlers[port] =
                               Append(@, [m |-> m, kind |-> "channel", k |-> 0])]
                  IN IF call.inner = "pending"
                     THEN listenThen([s3 EXCEPT !.listenCalls[m][k].inner = "resolved"], m, k)
                     ELSE s3

\* The window dispatches a message event to the observers registered when
\* the dispatch began, skipping one that was removed meanwhile.
RECURSIVE dispatchWindow(_, _, _, _)
dispatchWindow(s, m, snapshot, ev) ==
  IF snapshot = <<>>
  THEN s
  ELSE LET k == Head(snapshot)
           s1 == IF k \in Range(s.winObs[m])
                 THEN onListenConnectionMessageReceived_(s, m, k, ev)
                 ELSE s
       IN dispatchWindow(s1, m, Tail(snapshot), ev)

\* the first rejection of connect()'s promise, if any
connectRejection(s, m, remoteWindowContext, expectedRemoteOrigin) ==
  IF remoteWindowContext = "absent"
  THEN "Provide a valid Window context to connect to."
  ELSE IF expectedRemoteOrigin = Absent
  THEN "Provide an expected origin for the remote Window"
  ELSE IF s.connected[m] THEN "Already connected."
  ELSE IF s.connecting[m] THEN "Already connecting."
  ELSE "pending"

\* the targetOrigin connect() hands to postMessage; parseUrl(undefined)
\* resolves against the calling document
targetOrigin(m, expectedRemoteOrigin) ==
  IF expectedRemoteOrigin = Wildcard THEN Wildcard
  ELSE IF expectedRemoteOrigin = Absent THEN Url(WinOrigin(m), "")
  ELSE parseUrlOrigin(expectedRemoteOrigin)

\* A faulty variant of connect that takes the channel for established as
\* soon as the handshake is posted: C38 does not hold of it.
connectEager(s, m, remoteWindowContext, expectedRemoteOrigin) ==
  LET rej == connectRejection(s, m, remoteWindowContext, expectedRemoteOrigin)
      s0 == [s EXCEPT !.evt = Evt("connect", m, rej)]
  IN IF s.connected[m] \/ s.connecting[m]
     THEN s0
     ELSE LET c == Tag(m, s.nextChan[m])
              k == Len(s.connectCalls[m]) + 1
              call == [port |-> <<c, 1>>,
                       promise |-> IF rej = "pending" THEN "resolved" ELSE "rejected"]
              s1 == [s0 EXCEPT !.nextChan[m] = @ + 1,
                               !.channel[m] = c,
                               !.messagePort[m] = <<c, 1>>,
                               !.connected[m] = TRUE,
                               !.connectCalls[m] = Append(@, call),
                               !.onConnectProc[m] = k,
                               !.handlers[<<c, 1>>] =
                                  Append(@, [m |-> m, kind |-> "channel", k |-> 0])]
              to == targetOrigin(m, expectedRemoteOrigin)
              ev == [origin |-> Url(WinOrigin(m), ""), topic |-> CONNECT_HANDSHAKE,
                     port |-> <<c, 2>>]
          IN IF remoteWindowContext = "absent"
             THEN s1
             ELSE LET s2 == [s1 EXCEPT !.hsWinSent[m] = @ + 1]
                  IN IF to = Wildcard \/ to = Url(WinOrigin(remoteWindowContext), "")
                     THEN [s2 EXCEPT !.winq[remoteWindowContext] = Append(@, ev)]
                     ELSE s2

\* connect(remoteWindowContext, expectedRemoteOrigin)
connect(s, m, remoteWindowContext, expectedRemoteOrigin) ==
  LET rej == connectRejection(s, m, remoteWindowContext, expectedRemoteOrigin)
      s0 == [s EXCEPT !.evt = Evt("connect", m, rej)]
  IN IF s.connected[m] \/ s.connecting[m]
     THEN s0
     ELSE LET c == Tag(m, s.nextChan[m])
              k == Len(s.connectCalls[m]) + 1
              \* expectedRemoteOrigin is bound too, and only ever logged
              call == [port |-> <<c, 1>>,
                       promise |-> IF rej = "pending" THEN "pending" ELSE "rejected"]
              s1 == [s0 EXCEPT !.nextChan[m] = @ + 1,
                               !.channel[m] = c,
                               !.messagePort[m] = <<c, 1>>,
                               !.connectCalls[m] = Append(@, call),
                               !.onConnectProc[m] = k,
                               !.handlers[<<c, 1>>] =
                                  Append(@, [m |-> m, kind |-> "connect", k |-> k])]
              to == targetOrigin(m, expectedRemoteOrigin)
              ev == [origin |-> Url(WinOrigin(m), ""), topic |-> CONNECT_HANDSHAKE,
                     port |-> <<c, 2>>]
          IN IF remoteWindowContext = "absent"
             \* postMessage of null: a TypeError the rejected promise swallows
             THEN s1
             ELSE LET s2 == [s1 EXCEPT !.hsWinSent[m] = @ + 1]
                  IN IF to = Wildcard \/ to = Url(WinOrigin(remoteWindowContext), "")
                     THEN [s2 EXCEPT !.winq[remoteWindowContext] = Append(@, ev)]
                     ELSE s2

\* onConnectConnectionMessageReceived_ as bound by the k-th connect() call
onConnectConnectionMessageReceived_(s, m, k) ==
  LET port == s.connectCalls[m][k].port
      latest == [m |-> m, kind |-> "connect", k |-> s.onConnectProc[m]]
      s1 == [s EXCEPT !.connected[m] = TRUE,
                      !.handlers[port] = Remove(@, latest),
                      !.onChannelProc[m] = TRUE]
      s2 == [s1 EXCEPT !.handlers[port] =
               Append(@, [m |-> m, kind |-> "channel", k |-> 0])]
  IN [s2 EXCEPT !.connectCalls[m][k].promise =
        IF @ = "pending" THEN "resolved" ELSE @]

\* A port dispatches a message event to the handlers registered when the
\* dispatch began, skipping one that was removed meanwhile.
RECURSIVE dispatchPort(_, _, _, _)
dispatchPort(s, p, snapshot, env) ==
  IF snapshot = <<>>
  THEN s
  ELSE LET h == Head(snapshot)
           s1 == IF h \notin Range(s.handlers[p]) THEN s
                 ELSE IF h.kind = "connect"
                 THEN onConnectConnectionMessageReceived_(s, h.m, h.k)
                 ELSE onChannelMessageReceived_(s, h.m, env)
       IN dispatchPort(s1, p, Tail(snapshot), env)

\* ---------------------------------------------------------------- actions
\* the allowedOrigins arguments an application passes to listen()
ListenArgs(m) ==
  { [isArray |-> FALSE, list |-> <<>>],
    [isArray |-> TRUE, list |-> <<Url(WinOrigin(Other(m)), "/p")>>],
    [isArray |-> TRUE, list |-> <<Url("oX", "/p"), Url(WinOrigin(Other(m)), "")>>] }

\* the (remoteWindowContext, expectedRemoteOrigin) arguments an application
\* passes to connect()
ConnectArgs(m) ==
  { <<"absent", Url(WinOrigin(Other(m)), "/p")>>,
    <<Other(m), Absent>>,
    <<Other(m), Wildcard>>,
    <<Other(m), Url(WinOrigin(Other(m)), "/p")>>,
    <<Other(m), Url("oX", "")>> }

\* What a third party may post to a window: "oX" is an origin that some
\* allowedOrigins lists name, "oY" is one that none names.  A message with
\* topic "none" carries no data.
NoiseEvents ==
  { [origin |-> Url("oX", ""), topic |-> t, port |-> NullPort] :
      t \in {CONNECT_HANDSHAKE, "t1", "none"} }
  \cup
  { [origin |-> Url(o, ""), topic |-> CONNECT_HANDSHAKE,
     port |-> <<0 - noiseLeft, 2>>] : o \in {"oX", "oY"} }
  \cup
  { [origin |-> Url("oY", ""), topic |-> "t1", port |-> NullPort] }

Listen(m) ==
  /\ callsLeft > 0
  /\ \E arg \in ListenArgs(m) :
       Apply([listen(State, m, arg) EXCEPT !.callsLeft = @ - 1])

Connect(m) ==
  /\ callsLeft > 0
  /\ \E a \in ConnectArgs(m) :
       Apply([connect(State, m, a[1], a[2]) EXCEPT !.callsLeft = @ - 1])

\* The window of m delivers a message that a third party posted.  Posting
\* has no effect but the message's place in the window's queue, and a third
\* party may have posted at any time: the message is delivered here ahead of
\* the queued ones (it was posted before them), or after they were delivered.
\* A window without an observer delivers to nobody.
Noise(m) ==
  /\ noiseLeft > 0
  /\ winObs[m] # <<>>
  /\ \E ev \in NoiseEvents :
       Apply(dispatchWindow([State EXCEPT !.noiseLeft = @ - 1,
                                          !.evt = [Evt("winmsg", m, "") EXCEPT !.ev = ev]],
                            m, winObs[m], ev))

\* the window of m delivers its oldest queued message
DeliverWindow(m) ==
  /\ winq[m] # <<>>
  /\ LET ev == Head(winq[m])
         s0 == [State EXCEPT !.winq[m] = Tail(@),
                             !.wevt = WQuiet,
                             !.evt = [Evt("winmsg", m, "") EXCEPT !.ev = ev]]
     IN Apply(dispatchWindow(s0, m, winObs[m], ev))

\* a started port delivers its oldest queued envelope
DeliverPort(p) ==
  /\ portq[p] # <<>>
  /\ handlers[p] # <<>>
  /\ LET env == Head(portq[p])
         s0 == [State EXCEPT !.portq[p] = Tail(@),
                             !.evt = [Evt("portmsg", handlers[p][1].m, "") EXCEPT !.env = env]]
     IN Apply(dispatchPort(s0, p, handlers[p], env))

\* The application calls send().  With no port bound the call throws a
\* TypeError to its caller and changes nothing: these calls are not drawn.
Send(m) ==
  /\ sendsLeft > 0
  /\ IsPort(messagePort[m])
  /\ \E t \in AppTopics, d \in {"d1"} :
       Apply([send([State EXCEPT !.evt = Quiet], m, t, d)
                EXCEPT !.sendsLeft = @ - 1])

\* the application calls a reply function it was handed
Reply(m) ==
  /\ sendsLeft > 0
  /\ \E fn \in held[m], d \in {"d2"} :
       Apply([sendReply_([State EXCEPT !.evt = Quiet], m, fn[1], fn[2], d)
                EXCEPT !.sendsLeft = @ - 1])

On(m) ==
  /\ onLeft > 0
  /\ \E t \in AppTopics, cb \in Callbacks :
       Apply([on([State EXCEPT !.evt = Quiet], m, t, cb)
                EXCEPT !.onLeft = @ - 1])

Next ==
  \/ \E m \in M : Listen(m)
  \/ \E m \in M : Connect(m)
  \/ \E m \in M : Noise(m)
  \/ \E m \in M : DeliverWindow(m)
  \/ \E p \in Ports : DeliverPort(p)
  \/ \E m \in M : Send(m)
  \/ \E m \in M : Reply(m)
  \/ \E m \in M : On(m)

Spec == Init /\ [][Next]_vars

\* send() on any topic
SendOn(m) ==
  /\ sendsLeft > 0
  /\ IsPort(messagePort[m])
  /\ \E t \in AllTopics, d \in {"d1"} :
       Apply([send([State EXCEPT !.evt = Quiet], m, t, d)
                EXCEPT !.sendsLeft = @ - 1])

\* the application calls a reply function it was handed, with any data
ReplyWith(m) ==
  /\ sendsLeft > 0
  /\ \E fn \in held[m], d \in ReplyData :
       Apply([sendReply_([State EXCEPT !.evt = Quiet], m, fn[1], fn[2], d)
                EXCEPT !.sendsLeft = @ - 1])

\* on() for any topic
OnTopic(m) ==
  /\ onLeft > 0
  /\ \E t \in AllTopics, cb \in Callbacks :
       Apply([on([State EXCEPT !.evt = Quiet], m, t, cb)
                EXCEPT !.onLeft = @ - 1])

ExchangeNext ==
  \/ \E m \in M : Listen(m)
  \/ \E m \in M : Connect(m)
  \/ \E m \in M : Noise(m)
  \/ \E m \in M : DeliverWindow(m)
  \/ \E p \in Ports : DeliverPort(p)
  \/ \E m \in M : SendOn(m)
  \/ \E m \in M : ReplyWith(m)
  \/ \E m \in M : OnTopic(m)

\* the runs that follow exchanges in depth: several sends, replies to replies
ExchangeSpec == ExchangeInit /\ [][ExchangeNext]_vars

MsgSpec == MsgInit /\ [][Next]_vars

\* ------------------------------------------------- listeners, on and off
\* The callbacks an application registers: one that only takes the message
\* and one that unregisters itself when it is invoked.
Listeners == {"cb1", "cbOff"}

\* A short handshake, one message, and on() and off() in depth.
ListenerInit ==
  /\ Constructed
  /\ callsLeft = MaxCalls - 1
  /\ noiseLeft = 0
  /\ sendsLeft = MaxSends - 2
  /\ onLeft = MaxOn + 1

\* on() with any of the callbacks
OnListener(m) ==
  /\ onLeft > 0
  /\ \E t \in AllTopics, cb \in Listeners :
       Apply([on([State EXCEPT !.evt = Quiet], m, t, cb)
                EXCEPT !.onLeft = @ - 1])

\* The application calls off(), with a callback or without one.  The step
\* shows the call: its topic and callback (evt.env) and whether it threw.
Off(m) ==
  /\ onLeft > 0
  /\ \E t \in AllTopics, cb \in Listeners \cup {"undefined"} :
       LET call == [NoEnvelope EXCEPT !.topic = t, !.data = cb]
           s0 == [State EXCEPT !.evt = [Evt("off", m, "") EXCEPT !.env = call],
                               !.thrown[m] = FALSE]
           s1 == off(s0, m, t, cb)
       IN Apply([s1 EXCEPT !.onLeft = @ - 1,
                           !.evt.res = IF s1.thrown[m] THEN "TypeError" ELSE "",
                           !.thrown[m] = thrown[m]])

ListenerNext ==
  \/ \E m \in M : Listen(m)
  \/ \E m \in M : Connect(m)
  \/ \E m \in M : DeliverWindow(m)
  \/ \E p \in Ports : DeliverPort(p)
  \/ \E m \in M : SendOn(m)
  \/ \E m \in M : OnListener(m)
  \/ \E m \in M : Off(m)

ListenerSpec == ListenerInit /\ [][ListenerNext]_vars

\* a queued message of some window or started port is delivered
Deliver ==
  \/ \E m \in M : DeliverWindow(m)
  \/ \E p \in Ports : DeliverPort(p)

\* a short handshake and a short exchange after it
FairInit ==
  /\ Constructed
  /\ callsLeft = MaxCalls - 1
  /\ noiseLeft = MaxNoise - 1
  /\ sendsLeft = MaxSends - 1
  /\ onLeft = MaxOn - 1

\* The event loops run their queued tasks: deliveries cannot stay possible
\* forever without one taking place.
FairSpec == FairInit /\ [][Next]_vars /\ WF_vars(Deliver)

\* --------------------------------------------------------- worker messenger
\* isWorkerControllingPage_()
isWorkerControllingPage_(s) ==
  s.controller # 0 /\ s.workerState[s.controller] = "activated"

\* The reaction the caller chained to the i-th waitUntilWorkerControlsPage()
\* promise: unicast() posts {command, payload} to the controller, listen()
\* attaches a message observer to navigator.serviceWorker.
waitThen(s, i) ==
  LET w == s.waits[i]
  IN IF w.kind = "unicast"
     THEN [s EXCEPT !.posted =
             Append(@, [by |-> i, to |-> s.controller,
                        state |-> IF s.controller = 0 THEN "none"
                                  ELSE s.workerState[s.controller],
                        command |-> w.command, payload |-> w.payload])]
     ELSE IF w.kind = "listen"
     THEN [s EXCEPT !.msgObservers = @ + 1]
     ELSE s

\* resolve() of the i-th promise: a pending promise is fulfilled and its
\* reaction runs in the microtask checkpoint that follows; on a settled
\* promise the call is a no-op
resolveWait(s, i) ==
  IF s.waits[i].state = "pending"
  THEN waitThen([s EXCEPT !.waits[i].state = "resolved",
                          !.waits[i].runs = @ + 1], i)
  ELSE s

\* waitUntilWorkerControlsPage(), with the reaction its caller chains
waitUntilWorkerControlsPage(s, kind, command, payload) ==
  LET i == Len(s.waits) + 1
      \* observed: a controllerchange event reached the promise's listener
      w == [kind |-> kind, command |-> command, payload |-> payload,
            state |-> "pending", runs |-> 0, observed |-> FALSE]
      s1 == [s EXCEPT !.waits = Append(@, w)]
  IN IF isWorkerControllingPage_(s1)
     THEN resolveWait(s1, i)
     ELSE [s1 EXCEPT !.ccListeners = Append(@, i)]

\* A faulty variant of the controllerchange listener that resolves without
\* looking at the controller's state: C13 does not hold of it.
onControllerChangeEager(s, i) ==
  resolveWait([s EXCEPT !.waits[i].observed = TRUE], i)

\* the controllerchange listener of the i-th promise
onControllerChange(s, i) ==
  LET s1 == [s EXCEPT !.waits[i].observed = TRUE]
  IN IF isWorkerControllingPage_(s1)
     THEN resolveWait(s1, i)
     ELSE [s1 EXCEPT !.scListeners[s.controller] = Append(@, i)]

\* the statechange listener of the i-th promise
onStateChange(s, i) ==
  IF isWorkerControllingPage_(s) THEN resolveWait(s, i) ELSE s

RECURSIVE dispatchControllerChange(_, _)
dispatchControllerChange(s, snapshot) ==
  IF snapshot = <<>> THEN s
  ELSE dispatchControllerChange(onControllerChange(s, Head(snapshot)), Tail(snapshot))

RECURSIVE dispatchStateChange(_, _)
dispatchStateChange(s, snapshot) ==
  IF snapshot = <<>> THEN s
  ELSE dispatchStateChange(onStateChange(s, Head(snapshot)), Tail(snapshot))

\* A faulty variant of unicast that does not wait: it posts at the call
\* whether or not a worker controls the page.  C14 does not hold of it.
unicastAtOnce(s, command, payload) ==
  LET s1 == waitUntilWorkerControlsPage(s, "unicast", command, payload)
      i == Len(s1.waits)
  IN IF s1.waits[i].state = "resolved" THEN s1 ELSE waitThen(s1, i)

\* unicast(command, payload)
unicast(s, command, payload) ==
  waitUntilWorkerControlsPage(s, "unicast", command, payload)

\* WorkerMessenger.listen()
workerListen(s) ==
  waitUntilWorkerControlsPage(s, "listen", "", "")

\* WorkerMessengerReplyBuffer.findListenersForMessage(command)
\* this.replies[command] || []
findListenersForMessage(s, command) == s.replies[command].list

\* WorkerMessengerReplyBuffer.addListener(command, callback, onceListenerOnly):
\* every call makes a record of its own
addListener(s, command, callback, onceListenerOnly) ==
  LET record == [id |-> s.nextRecord, callback |-> callback,
                 onceListenerOnly |-> onceListenerOnly]
  IN [s EXCEPT !.replies[command] =
                  IF Len(findListenersForMessage(s, command)) > 0
                  THEN [@ EXCEPT !.list = Append(@, record)]
                  ELSE [is |-> "array", list |-> <<record>>],
               !.nextRecord = @ + 1]

\* WorkerMessengerReplyBuffer.deleteListenerRecords(command)
deleteListenerRecords(s, command) ==
  [s EXCEPT !.replies[command] = NullRecords]

\* A faulty variant of deleteListenerRecord that removes nothing: C16 does
\* not hold of it.
deleteListenerRecordNot(s, command, targetRecord) == s

\* WorkerMessengerReplyBuffer.deleteListenerRecord(command, targetRecord):
\* the loop reads listenersForCommand.length without a check that the
\* command has an array, a TypeError on undefined and on null
\* (wevt.payload shows it to the caller).
deleteListenerRecord(s, command, targetRecord) ==
  IF s.replies[command].is # "array"
  THEN [s EXCEPT !.wevt.payload = "TypeError"]
  ELSE [s EXCEPT !.replies[command].list = Remove(@, targetRecord)]

RECURSIVE deleteAll(_, _, _)
deleteAll(s, command, listenersToRemove) ==
  IF listenersToRemove = <<>> THEN s
  ELSE deleteAll(deleteListenerRecord(s, command,
                                      listenersToRemove[Len(listenersToRemove)]),
                 command, SubSeq(listenersToRemove, 1, Len(listenersToRemove) - 1))

\* listenerRecord.callback.apply(null, [data.payload]): the callback is the
\* application's; the model keeps that it ran and what it was handed.  The
\* callback "cbOnce" registers, when it is invoked, a new once listener for
\* the command it was registered for: once(command, cb).
callListener(s, listenerRecord, data) ==
  LET s1 == [s EXCEPT !.wevt.inv = Append(@, <<listenerRecord.id, data.payload>>)]
  IN IF listenerRecord.callback = Callback("cbOnce")
     THEN addListener(s1, data.command, Callback("cb"), TRUE)
     ELSE s1

RECURSIVE callAll(_, _, _)
callAll(s, listenersToCall, data) ==
  IF listenersToCall = <<>> THEN s
  ELSE callAll(callListener(s, Head(listenersToCall), data),
               Tail(listenersToCall), data)

\* onPageMessageReceivedFromServiceWorker_(event)
onPageMessageReceivedFromServiceWorker_(s, data) ==
  LET listenerRecords == findListenersForMessage(s, data.command)
      listenersToRemove == SelectSeq(listenerRecords, LAMBDA r : r.onceListenerOnly)
      listenersToCall == listenerRecords
      s1 == deleteAll(s, data.command, listenersToRemove)
  IN callAll(s1, listenersToCall, data)

\* navigator.serviceWorker dispatches a message event to its n observers
RECURSIVE dispatchWorkerMessage(_, _, _)
dispatchWorkerMessage(s, n, data) ==
  IF n = 0 THEN s
  ELSE dispatchWorkerMessage(onPageMessageReceivedFromServiceWorker_(s, data),
                             n - 1, data)

\* the application calls waitUntilWorkerControlsPage() by itself
WaitCall ==
  /\ Len(waits) < MaxWaits
  /\ Apply(waitUntilWorkerControlsPage([State EXCEPT !.wevt = WQuiet],
                                       "wait", "", ""))

Unicast ==
  /\ Len(waits) < MaxWaits
  /\ \E c \in Commands, p \in Payloads :
       Apply(unicast([State EXCEPT !.wevt = WQuiet], c, p))

WorkerListen ==
  /\ Len(waits) < MaxWaits - 1
  /\ Apply(workerListen([State EXCEPT !.wevt = WQuiet]))

WorkerOn ==
  /\ nextRecord <= MaxRecords
  /\ \E c \in Commands :
       Apply(addListener([State EXCEPT !.wevt = WQuiet], c, Callback("cb"), FALSE))

WorkerOnce ==
  /\ nextRecord <= MaxRecords
  /\ \E c \in Commands :
       Apply(addListener([State EXCEPT !.wevt = WQuiet], c, Callback("cb"), TRUE))

WorkerOff ==
  \E c \in Commands :
    /\ replies[c].list # <<>>
    /\ Apply(deleteListenerRecords([State EXCEPT !.wevt = WQuiet], c))

\* A worker w that has become active takes control of the page (the page's
\* registration was updated, or the worker called clients.claim()).  Workers
\* are numbered by version: control passes to a newer worker only.
ControllerChange ==
  \E w \in Workers :
    /\ w > controller
    /\ workerState[w] \in {"activating", "activated"}
    /\ Apply(dispatchControllerChange(
               [State EXCEPT !.controller = w,
                             !.evt = Quiet,
                             !.wevt = WQuiet],
               ccListeners))

\* a worker moves on in its life cycle
StateChange ==
  \E w \in Workers :
    \E next \in {"activating", "activated", "redundant"} :
      /\ \/ workerState[w] = "installing" /\ next \in {"activating", "redundant"}
         \/ workerState[w] = "activating" /\ next \in {"activated", "redundant"}
         \/ workerState[w] = "activated" /\ next = "redundant"
      /\ Apply(dispatchStateChange(
                 [State EXCEPT !.workerState[w] = next,
                               !.evt = Quiet,
                               !.wevt = WQuiet],
                 scListeners[w]))

\* an active worker posts {command, payload} to the page
WorkerMessage ==
  /\ \E w \in Workers : workerState[w] \in {"activating", "activated"}
  /\ \E c \in Commands, p \in Payloads :
       Apply(dispatchWorkerMessage([State EXCEPT !.wevt = WEvt("message", c, p)],
                                   msgObservers,
                                   [command |-> c, payload |-> p]))

\* the steps that matter to a page waiting for its controller
ControlNext ==
  \/ WaitCall
  \/ Unicast
  \/ ControllerChange
  \/ StateChange

\* the steps that matter to a page listening for worker messages
ListenNext ==
  \/ WorkerListen
  \/ WorkerOn
  \/ WorkerOnce
  \/ WorkerOff
  \/ WorkerMessage
  \/ ControllerChange
  \/ StateChange

\* the page and its workers alone: no window messenger call is made
WorkerInit ==
  /\ Constructed
  /\ callsLeft = 0
  /\ noiseLeft = 0
  /\ sendsLeft = 0
  /\ onLeft = 0

ControlSpec == WorkerInit /\ [][ControlNext]_vars

ListenSpec == WorkerInit /\ [][ListenNext]_vars

\* ------------------------------------------------------ reply registry
\* The record with this id: the one some list holds, or a record that no
\* list holds (never added, or removed since).
RecordOf(id) ==
  IF \E c \in Commands : \E j \in 1..Len(replies[c].list) : replies[c].list[j].id = id
  THEN LET c == CHOOSE c \in Commands :
                  \E j \in 1..Len(replies[c].list) : replies[c].list[j].id = id
           j == CHOOSE j \in 1..Len(replies[c].list) : replies[c].list[j].id = id
       IN replies[c].list[j]
  ELSE [id |-> id, callback |-> Callback("cb"), onceListenerOnly |-> FALSE]

\* replies.deleteListenerRecords(command), whatever the registry holds
DeleteRecords ==
  \E c \in Commands :
    Apply(deleteListenerRecords([State EXCEPT !.wevt = WQuiet], c))

\* replies.deleteListenerRecord(command, record) with any record and
\* command: wevt shows the call, the id of its record in place of the
\* payload of a message, and whether it threw
DeleteRecord ==
  \E c \in Commands, id \in 1..MaxRecords :
    LET s0 == [State EXCEPT !.wevt = [WEvt("delete", c, "") EXCEPT
                                        !.inv = << <<id, "">> >>]]
    IN Apply(deleteListenerRecord(s0, c, RecordOf(id)))

RegistryNext ==
  \/ WorkerOn
  \/ WorkerOnce
  \/ DeleteRecords
  \/ DeleteRecord

RegistrySpec == WorkerInit /\ [][RegistryNext]_vars

\* ---------------------------------------- listeners that register again
\* once(command, cbOnce): the callback registers a once listener for the
\* command when it is invoked
WorkerOnceAgain ==
  /\ nextRecord <= MaxRecords - 1
  /\ \E c \in Commands :
       Apply(addListener([State EXCEPT !.wevt = WQuiet], c, Callback("cbOnce"), TRUE))

AgainNext ==
  \/ WorkerListen
  \/ WorkerOnceAgain
  \/ WorkerMessage
  \/ ControllerChange
  \/ StateChange

AgainSpec == WorkerInit /\ [][AgainNext]_vars

\* ------------------------------------------- AMP page and helper frame
\* The AMP page's WebPushService owns instance "A" (frameMessenger_), the
\* helper frame owns instance "B" (ampMessenger) and the WorkerMessenger of
\* the page the workers control.

\* A message of the AMP page to the helper frame: the fields a handler may
\* read, "undefined" for one the message does not carry
Message(topic, payload, workerUrl, registrationOptions) ==
  [isNull |-> FALSE, topic |-> topic, payload |-> payload,
   workerUrl |-> workerUrl, registrationOptions |-> registrationOptions]

NullMessage ==
  [isNull |-> TRUE, topic |-> "undefined", payload |-> "undefined",
   workerUrl |-> "undefined", registrationOptions |-> "undefined"]

\* controller.scriptURL
scriptURL(w) == IF w = 1 THEN "/sw1.js" ELSE "/sw2.js"

\* queryHelperFrame_(messageTopic, message), once the frame has loaded: the
\* k-th query is the promise that send() returned with the reaction chained
\* to it; a send() that throws rejects the query
queryHelperFrame_(s, messageTopic, message) ==
  IF ~IsPort(s.messagePort["A"])
  THEN [s EXCEPT !.queries =
          Append(@, [topic |-> messageTopic, message |-> message, promise |-> 0])]
  ELSE LET s1 == send(s, "A", messageTopic, message)
       IN [s1 EXCEPT !.queries =
             Append(@, [topic |-> messageTopic, message |-> message,
                        promise |-> Len(s1.promises["A"])])]

\* A faulty variant of the reaction in queryHelperFrame_ that hands on the
\* result whatever the reply's success flag says: C20 does not hold of it.
queryReactionTrusting(replyPayload) ==
  [state |-> "resolved", value |-> replyPayload.result]

\* the reaction queryHelperFrame_ chains to send(): result[0] is the reply
queryReaction(replyPayload) ==
  IF replyPayload.success
  THEN [state |-> "resolved", value |-> replyPayload.result]
  ELSE [state |-> "rejected", value |-> replyPayload.error]

\* how the promise that the k-th queryHelperFrame_ call returned stands
queryOutcome(s, k) ==
  LET q == s.queries[k]
  IN IF q.promise = 0
     THEN [state |-> "rejected", value |-> "TypeError"]
     ELSE LET pr == s.promises["A"][q.promise]
          IN IF pr.state = "pending"
             THEN [state |-> "pending", value |-> "none"]
             ELSE queryReaction(pr.value)

\* queryServiceWorker_(messageTopic, message)
queryServiceWorker_(s, messageTopic, message) ==
  queryHelperFrame_(s, SERVICE_WORKER_QUERY,
                    Message(messageTopic, message, "undefined", "undefined"))

\* queryNotificationPermission_()
queryNotificationPermission_(s) ==
  queryHelperFrame_(s, NOTIFICATION_PERMISSION_STATE, NullMessage)

\* queryServiceWorkerState_()
queryServiceWorkerState_(s) ==
  queryHelperFrame_(s, SERVICE_WORKER_STATE, NullMessage)

\* registerServiceWorker(): serviceWorkerUrl is what the configuration says
registerServiceWorker(s, serviceWorkerUrl) ==
  queryHelperFrame_(s, SERVICE_WORKER_REGISTRATION,
                    Message("undefined", "undefined", serviceWorkerUrl, "scope:/"))

\* initialize_(): once the frame has loaded, connect to its window
initialize_(s) ==
  connect(s, "A", "B", Url(WinOrigin("B"), "/helper-frame.html"))

\* replyToFrameWithPayload(replyToFrameFunction, wasSuccessful, errorPayload,
\* successPayload): the reply function (replyFn) is sendReply_ bound to the
\* request's id and topic
replyToFrameWithPayload(s, replyFn, wasSuccessful, errorPayload, successPayload) ==
  sendReply_(s, "B", replyFn[1], replyFn[2],
             [success |-> wasSuccessful,
              error |-> IF wasSuccessful THEN "undefined" ELSE errorPayload,
              result |-> IF wasSuccessful THEN successPayload ELSE "undefined"])

\* A faulty variant of the permission handler that answers only when an
\* activated worker controls the frame: C30 does not hold of it.
onAmpPageMessageReceivedPermissionWaiting(s, message, replyToFrame) ==
  IF isWorkerControllingPage_(s)
  THEN replyToFrameWithPayload(s, replyToFrame, TRUE, "null", s.permission)
  ELSE s

\* onAmpPageMessageReceived_NotificationPermissionState
onAmpPageMessageReceived_NotificationPermissionState(s, message, replyToFrame) ==
  replyToFrameWithPayload(s, replyToFrame, TRUE, "null", s.permission)

\* A faulty variant of the state handler that reports a missing controller
\* as a controlling one: C18 does not hold of it.
onAmpPageMessageReceivedStateStale(s, message, replyToFrame) ==
  replyToFrameWithPayload(s, replyToFrame, TRUE, "null",
    [isControllingFrame |-> TRUE, url |-> scriptURL(1), state |-> "activated"])

\* onAmpPageMessageReceived_ServiceWorkerState
onAmpPageMessageReceived_ServiceWorkerState(s, message, replyToFrame) ==
  LET serviceWorkerState ==
        [isControllingFrame |-> s.controller # 0,
         url |-> IF s.controller # 0 THEN scriptURL(s.controller) ELSE "null",
         state |-> IF s.controller # 0 THEN s.workerState[s.controller] ELSE "null"]
  IN replyToFrameWithPayload(s, replyToFrame, TRUE, "null", serviceWorkerState)

\* A faulty variant of the registration handler that calls register()
\* before it looks at the message: C29 does not hold of it.
onAmpPageMessageReceivedRegistrationUnchecked(s, message, replyToFrame) ==
  LET s1 == [s EXCEPT !.registrations =
               Append(@, [replyToFrame |-> replyToFrame, state |-> "pending"])]
  IN IF message.isNull \/ message.workerUrl = "undefined"
        \/ message.registrationOptions = "undefined"
     THEN [s1 EXCEPT !.thrown["B"] = TRUE]
     ELSE s1

\* onAmpPageMessageReceived_ServiceWorkerRegistration: register() returns a
\* promise that the browser settles later
onAmpPageMessageReceived_ServiceWorkerRegistration(s, message, replyToFrame) ==
  IF message.isNull \/ message.workerUrl = "undefined"
     \/ message.registrationOptions = "undefined"
  THEN [s EXCEPT !.thrown["B"] = TRUE]
  ELSE [s EXCEPT !.registrations =
          Append(@, [replyToFrame |-> replyToFrame, state |-> "pending"])]

\* A faulty variant of the reactions that reports a failed registration as
\* a failure: C19 does not hold of it.
registerSettledReporting(s, i, fulfilled) ==
  LET s1 == [s EXCEPT !.registrations[i].state =
               IF fulfilled THEN "fulfilled" ELSE "rejected"]
      replyToFrame == s.registrations[i].replyToFrame
  IN IF fulfilled
     THEN replyToFrameWithPayload(s1, replyToFrame, TRUE, "null", "null")
     ELSE replyToFrameWithPayload(s1, replyToFrame, FALSE, "error.message", "null")

\* the reactions chained to the i-th register() promise
registerSettled(s, i, fulfilled) ==
  LET s1 == [s EXCEPT !.registrations[i].state =
               IF fulfilled THEN "fulfilled" ELSE "rejected"]
      replyToFrame == s.registrations[i].replyToFrame
  IN IF fulfilled
     THEN replyToFrameWithPayload(s1, replyToFrame, TRUE, "null", "null")
     ELSE replyToFrameWithPayload(s1, replyToFrame, TRUE, "null", "error.message")

\* A faulty variant of the query handler that registers its callback with
\* on() instead of once(): C39 does not hold of it.
onAmpPageMessageReceivedQueryOn(s, message, replyToFrame) ==
  IF message.isNull \/ message.topic = "undefined"
  THEN [s EXCEPT !.thrown["B"] = TRUE]
  ELSE unicast(addListener(s, message.topic, replyToFrame, FALSE),
               message.topic, message.payload)

\* onAmpPageMessageReceived_ServiceWorkerQuery: the once() callback keeps
\* the reply function of the request
onAmpPageMessageReceived_ServiceWorkerQuery(s, message, replyToFrame) ==
  IF message.isNull \/ message.topic = "undefined"
  THEN [s EXCEPT !.thrown["B"] = TRUE]
  ELSE unicast(addListener(s, message.topic, replyToFrame, TRUE),
               message.topic, message.payload)

\* the listeners run() registers, by the name of the method bound
helperListener(s, callback, message, replyToFrame) ==
  IF callback = "onAmpPageMessageReceived_NotificationPermissionState"
  THEN onAmpPageMessageReceived_NotificationPermissionState(s, message, replyToFrame)
  ELSE IF callback = "onAmpPageMessageReceived_ServiceWorkerState"
  THEN onAmpPageMessageReceived_ServiceWorkerState(s, message, replyToFrame)
  ELSE IF callback = "onAmpPageMessageReceived_ServiceWorkerRegistration"
  THEN onAmpPageMessageReceived_ServiceWorkerRegistration(s, message, replyToFrame)
  ELSE IF callback = "onAmpPageMessageReceived_ServiceWorkerQuery"
  THEN onAmpPageMessageReceived_ServiceWorkerQuery(s, message, replyToFrame)
  ELSE s

\* the loop of onChannelMessageReceived_ over the listeners of the topic, with
\* the helper frame's listeners run; a listener that throws ends the loop
RECURSIVE callHelperListeners(_, _, _)
callHelperListeners(s, ls, env) ==
  IF ls = <<>> THEN s
  ELSE LET s1 == helperListener(s, Head(ls), env.data, <<env.id, env.topic>>)
       IN IF s1.thrown["B"] /\ ~s.thrown["B"] THEN s1
          ELSE callHelperListeners(s1, Tail(ls), env)

\* the callback of the listener record with this id
callbackOf(listenerRecords, id) ==
  LET j == CHOOSE j \in 1..Len(listenerRecords) : listenerRecords[j].id = id
  IN listenerRecords[j].callback

\* the once() callbacks of the helper frame that a worker message invoked:
\* each forwards the worker's payload to the AMP page
RECURSIVE forwardReplies(_, _, _)
forwardReplies(s, listenerRecords, inv) ==
  IF inv = <<>> THEN s
  ELSE forwardReplies(
         replyToFrameWithPayload(s, callbackOf(listenerRecords, Head(inv)[1]),
                                 TRUE, "null", Head(inv)[2]),
         listenerRecords, Tail(inv))

\* A faulty variant of run() that starts to listen without a handler for
\* NOTIFICATION_PERMISSION_STATE: C21 does not hold of it.
runUnwired(s) ==
  LET s2 == on(s, "B", SERVICE_WORKER_STATE,
               "onAmpPageMessageReceived_ServiceWorkerState")
      s3 == on(s2, "B", SERVICE_WORKER_REGISTRATION,
               "onAmpPageMessageReceived_ServiceWorkerRegistration")
      s4 == on(s3, "B", SERVICE_WORKER_QUERY,
               "onAmpPageMessageReceived_ServiceWorkerQuery")
      s5 == workerListen(s4)
      parentOrigin == Url(WinOrigin("A"), "")
  IN listen(s5, "B", [isArray |-> TRUE, list |-> <<parentOrigin>>])

\* AmpWebPushHelperFrame.run()
run(s) ==
  LET s1 == on(s, "B", NOTIFICATION_PERMISSION_STATE,
               "onAmpPageMessageReceived_NotificationPermissionState")
      s2 == on(s1, "B", SERVICE_WORKER_STATE,
               "onAmpPageMessageReceived_ServiceWorkerState")
      s3 == on(s2, "B", SERVICE_WORKER_REGISTRATION,
               "onAmpPageMessageReceived_ServiceWorkerRegistration")
      s4 == on(s3, "B", SERVICE_WORKER_QUERY,
               "onAmpPageMessageReceived_ServiceWorkerQuery")
      s5 == workerListen(s4)
      \* getParentOrigin(): the parentOrigin parameter the AMP page put into
      \* the frame's URL, its own window.location.origin
      parentOrigin == Url(WinOrigin("A"), "")
  IN listen(s5, "B", [isArray |-> TRUE, list |-> <<parentOrigin>>])

\* the helper frame's script runs, once, while the frame loads
HelperRun ==
  /\ listeners["B"][SERVICE_WORKER_QUERY] = NoListeners
  /\ Apply(run([State EXCEPT !.evt = Quiet, !.wevt = WQuiet]))

\* The frame's load event, which follows the run of its script, resolves the
\* promise of IFrame.load(): the AMP page connects.
Initialize ==
  /\ listeners["B"][SERVICE_WORKER_QUERY] # NoListeners
  /\ connectCalls["A"] = <<>>
  /\ Apply(initialize_([State EXCEPT !.wevt = WQuiet]))

\* the queries wait for the load too, and run after the connect() call
QueryServiceWorker ==
  /\ connectCalls["A"] # <<>>
  /\ Len(queries) < MaxQueries
  /\ \E T \in Commands, P \in QueryPayloads :
       Apply(queryServiceWorker_([State EXCEPT !.evt = Quiet, !.wevt = WQuiet], T, P))

QueryServiceWorkerState ==
  /\ connectCalls["A"] # <<>>
  /\ Len(queries) < MaxQueries
  /\ Apply(queryServiceWorkerState_([State EXCEPT !.evt = Quiet, !.wevt = WQuiet]))

QueryNotificationPermission ==
  /\ connectCalls["A"] # <<>>
  /\ Len(queries) < MaxQueries
  /\ Apply(queryNotificationPermission_([State EXCEPT !.evt = Quiet, !.wevt = WQuiet]))

RegisterServiceWorker ==
  /\ connectCalls["A"] # <<>>
  /\ Len(queries) < MaxQueries
  /\ \E serviceWorkerUrl \in {"/sw1.js", "undefined"} :
       Apply(registerServiceWorker([State EXCEPT !.evt = Quiet, !.wevt = WQuiet],
                                   serviceWorkerUrl))

\* a started port delivers its oldest queued envelope; the helper frame's
\* listeners run where onChannelMessageReceived_ calls them
FrameDeliverPort(p) ==
  /\ portq[p] # <<>>
  /\ handlers[p] # <<>>
  /\ LET env == Head(portq[p])
         s0 == [State EXCEPT !.portq[p] = Tail(@),
                             !.wevt = WQuiet,
                             !.evt = [Evt("portmsg", handlers[p][1].m, "") EXCEPT !.env = env]]
         s1 == dispatchPort(s0, p, handlers[p], env)
     IN Apply(callHelperListeners(s1, s1.evt.inv, env))

\* the browser settles a register() promise
RegisterSettles ==
  \E i \in 1..Len(registrations), fulfilled \in BOOLEAN :
    /\ registrations[i].state = "pending"
    /\ Apply(registerSettled([State EXCEPT !.evt = Quiet, !.wevt = WQuiet],
                             i, fulfilled))

\* an active worker posts {command, payload} to the helper frame
HelperWorkerMessage ==
  /\ \E w \in Workers : workerState[w] \in {"activating", "activated"}
  /\ \E c \in Commands, p \in Payloads :
       LET s0 == [State EXCEPT !.evt = Quiet, !.wevt = WEvt("message", c, p)]
           s1 == dispatchWorkerMessage(s0, msgObservers,
                                       [command |-> c, payload |-> p])
       IN Apply(forwardReplies(s1, replies[c].list, s1.wevt.inv))

HelperNext ==
  \/ HelperRun
  \/ Initialize
  \/ QueryServiceWorker
  \/ QueryServiceWorkerState
  \/ QueryNotificationPermission
  \/ RegisterServiceWorker
  \/ \E m \in M : DeliverWindow(m)
  \/ \E p \in Ports : FrameDeliverPort(p)
  \/ RegisterSettles
  \/ HelperWorkerMessage
  \/ ControllerChange
  \/ StateChange

\* the AMP page, its helper frame and the frame's workers
HelperSpec == WorkerInit /\ [][HelperNext]_vars

\* ------------------------------------------------- malformed requests
\* The requests that lack what their handler reads: a query without a
\* topic, a registration without registrationOptions, and either with no
\* message at all.  (A registration without workerUrl is what
\* registerServiceWorker sends when the configuration names no worker.)
MalformedRequests ==
  { <<SERVICE_WORKER_QUERY, Message("undefined", "p1", "undefined", "undefined")>>,
    <<SERVICE_WORKER_QUERY, NullMessage>>,
    <<SERVICE_WORKER_REGISTRATION, Message("undefined", "undefined", "/sw1.js", "undefined")>>,
    <<SERVICE_WORKER_REGISTRATION, NullMessage>> }

\* the embedder sends such a request through queryHelperFrame_
MalformedRequest ==
  /\ connectCalls["A"] # <<>>
  /\ Len(queries) < MaxQueries
  /\ \E request \in MalformedRequests :
       Apply(queryHelperFrame_([State EXCEPT !.evt = Quiet, !.wevt = WQuiet],
                               request[1], request[2]))

MalformedNext ==
  \/ HelperNext
  \/ MalformedRequest

MalformedSpec == WorkerInit /\ [][MalformedNext]_vars

\* ------------------------------------------- queries on the same topic
\* The AMP page queries the worker on one topic, again before the first
\* query was answered.
QuerySameTopic ==
  /\ connectCalls["A"] # <<>>
  /\ Len(queries) < MaxQueries + 1
  /\ Apply(queryServiceWorker_([State EXCEPT !.evt = Quiet, !.wevt = WQuiet],
                               "c1", "null"))

\* The AMP page asks for the permission or for the state of the worker
\* after it has queried the worker, which may not have answered yet.
QueryLocalState ==
  /\ connectCalls["A"] # <<>>
  /\ Len(queries) \in 1..MaxQueries
  /\ \/ Apply(queryNotificationPermission_([State EXCEPT !.evt = Quiet, !.wevt = WQuiet]))
     \/ Apply(queryServiceWorkerState_([State EXCEPT !.evt = Quiet, !.wevt = WQuiet]))

RaceNext ==
  \/ HelperRun
  \/ Initialize
  \/ QuerySameTopic
  \/ QueryLocalState
  \/ \E m \in M : DeliverWindow(m)
  \/ \E p \in Ports : FrameDeliverPort(p)
  \/ HelperWorkerMessage
  \/ ControllerChange
  \/ StateChange

RaceSpec == WorkerInit /\ [][RaceNext]_vars

\* What a frame at the helper URL may answer: queryHelperFrame_ takes the
\* reply as it comes, whoever wrote the frame's listeners.
ReplyPayloads ==
  { [success |-> TRUE, error |-> "undefined", result |-> "r1"],
    [success |-> FALSE, error |-> "e1", result |-> "undefined"] }

\* the AMP page makes a query on one of the helper topics
Query ==
  /\ connectCalls["A"] # <<>>
  /\ Len(queries) < MaxQueries + 1
  /\ \E topic \in HelperTopics :
       Apply(queryHelperFrame_([State EXCEPT !.evt = Quiet], topic, NullMessage))

\* a listener of the frame calls the reply function it was handed
RemoteReply ==
  /\ sendsLeft > 0
  /\ \E fn \in held["B"], d \in ReplyPayloads :
       Apply([sendReply_([State EXCEPT !.evt = Quiet], "B", fn[1], fn[2], d)
                EXCEPT !.sendsLeft = @ - 1])

QueryInit ==
  /\ Constructed
  /\ callsLeft = 0
  /\ noiseLeft = 0
  /\ sendsLeft = MaxSends
  /\ onLeft = 0

QueryNext ==
  \/ HelperRun
  \/ Initialize
  \/ Query
  \/ \E m \in M : DeliverWindow(m)
  \/ \E p \in Ports : DeliverPort(p)
  \/ RemoteReply

\* the AMP page and a frame whose listeners answer as they please
QuerySpec == QueryInit /\ [][QueryNext]_vars

\* ------------------------------------------------- widget visibilities
\* config_.serviceWorkerUrl
serviceWorkerUrl == "/sw1.js"

\* The command 'amp-web-push-subscription-state' of
\* querySubscriptionStateRemotely_ is the first command of the model.
SUBSCRIPTION_STATE == "c1"

\* What a worker may answer to the subscription query: the booleans true and
\* false, written as strings, and a value that is not a boolean.
SubscriptionReplies == {"true", "false", "p1"}

NotificationPermissions == {"default", "granted", "denied"}

\* setWidgetVisibilities(widgetCategoryName, isVisible): the model keeps
\* the calls, in order
setWidgetVisibilities(s, widgetCategoryName, isVisible) ==
  [s EXCEPT !.widgetCalls = Append(@, <<widgetCategoryName, isVisible>>)]

\* updateWidgetVisibilitiesNotificationPermissionsBlocked()
updateWidgetVisibilitiesNotificationPermissionsBlocked(s) ==
  setWidgetVisibilities(
    setWidgetVisibilities(
      setWidgetVisibilities(s, "unsubscribed", FALSE), "subscribed", FALSE),
    "blocked", TRUE)

\* updateWidgetVisibilitiesUnsubscribed()
updateWidgetVisibilitiesUnsubscribed(s) ==
  setWidgetVisibilities(
    setWidgetVisibilities(
      setWidgetVisibilities(s, "unsubscribed", TRUE), "subscribed", FALSE),
    "blocked", FALSE)

\* getSubscriptionStateReplyVersion_(reply): 1 for a boolean, else undefined
getSubscriptionStateReplyVersion_(subscriptionStateReply) ==
  IF subscriptionStateReply \in {"true", "false"} THEN 1 ELSE 0

\* the reaction updateWidgetVisibilitiesServiceWorkerActivated() chains to
\* the subscription query
subscriptionReaction(s, reply) ==
  IF getSubscriptionStateReplyVersion_(reply) = 1
  THEN IF reply = "true"
       THEN setWidgetVisibilities(
              setWidgetVisibilities(
                setWidgetVisibilities(s, "unsubscribed", FALSE),
                "subscribed", TRUE),
              "blocked", FALSE)
       ELSE setWidgetVisibilities(
              setWidgetVisibilities(
                setWidgetVisibilities(s, "unsubscribed", TRUE),
                "subscribed", FALSE),
              "blocked", FALSE)
  ELSE s

\* the reaction isServiceWorkerActivated_() chains to the state query
isServiceWorkerActivated(serviceWorkerState) ==
  /\ serviceWorkerState.isControllingFrame = TRUE
  /\ serviceWorkerState.url = serviceWorkerUrl
  /\ serviceWorkerState.state = "activated"

\* querySubscriptionStateRemotely_()
querySubscriptionStateRemotely_(s) ==
  queryServiceWorker_(s, SUBSCRIPTION_STATE, "null")

\* updateWidgetVisibilitiesServiceWorkerActivated(): the query is made; its
\* reaction runs when the reply has come
updateWidgetVisibilitiesServiceWorkerActivated(s) ==
  LET s1 == querySubscriptionStateRemotely_(s)
  IN [s1 EXCEPT !.update.stage = "subscription",
                !.update.q[3] = Len(s1.queries)]

\* updateWidgetVisibilities(): the permission query is made, the rest is
\* chained to it
updateWidgetVisibilities(s) ==
  LET s1 == queryNotificationPermission_(s)
  IN [s1 EXCEPT !.update = [stage |-> "permission",
                            q |-> <<Len(s1.queries), 0, 0>>,
                            promise |-> "pending"]]

\* The reactions of updateWidgetVisibilities() that the settling of the
\* awaited query makes run.  The returned promise resolves when the
\* reaction to the permission has returned undefined, or when the promise
\* which that reaction returned has resolved: that is the promise of the
\* reaction to the worker's state, which returns undefined in both branches.
updateReaction(s) ==
  LET u == s.update
      k == IF u.stage = "permission" THEN u.q[1]
           ELSE IF u.stage = "state" THEN u.q[2]
           ELSE IF u.stage = "subscription" THEN u.q[3] ELSE 0
  IN IF k = 0 THEN s
     ELSE LET o == queryOutcome(s, k)
          IN IF o.state = "pending" THEN s
             ELSE IF o.state = "rejected"
             THEN [s EXCEPT !.update.stage = "done",
                            !.update.promise =
                               IF @ = "pending" THEN "rejected" ELSE @]
             ELSE IF u.stage = "permission"
             THEN IF o.value = "denied"
                  THEN [updateWidgetVisibilitiesNotificationPermissionsBlocked(s)
                          EXCEPT !.update.stage = "done",
                                 !.update.promise = "resolved"]
                  ELSE LET s1 == queryServiceWorkerState_(s)
                       IN [s1 EXCEPT !.update.stage = "state",
                                     !.update.q[2] = Len(s1.queries)]
             ELSE IF u.stage = "state"
             THEN IF isServiceWorkerActivated(o.value)
                  THEN [updateWidgetVisibilitiesServiceWorkerActivated(s)
                          EXCEPT !.update.promise = "resolved"]
                  ELSE [updateWidgetVisibilitiesUnsubscribed(s)
                          EXCEPT !.update.stage = "done",
                                 !.update.promise = "resolved"]
             ELSE [subscriptionReaction(s, o.value)
                     EXCEPT !.update.stage = "done"]

\* the AMP page calls updateWidgetVisibilities(), after the frame's load
UpdateWidgetVisibilities ==
  /\ connectCalls["A"] # <<>>
  /\ update = NoUpdate
  /\ Apply(updateWidgetVisibilities([State EXCEPT !.evt = Quiet, !.wevt = WQuiet]))

\* the user changes the notification permission of the helper's origin
PermissionChange ==
  \E value \in NotificationPermissions \ {permission} :
    /\ update.stage \in {"idle", "permission"}
    /\ Apply([State EXCEPT !.permission = value, !.evt = Quiet, !.wevt = WQuiet])

\* a started port delivers its oldest queued envelope: the helper frame's
\* listeners run, and in the AMP page the reactions to a settled query
WidgetDeliverPort(p) ==
  /\ portq[p] # <<>>
  /\ handlers[p] # <<>>
  /\ LET env == Head(portq[p])
         s0 == [State EXCEPT !.portq[p] = Tail(@),
                             !.wevt = WQuiet,
                             !.evt = [Evt("portmsg", handlers[p][1].m, "") EXCEPT !.env = env]]
         s1 == dispatchPort(s0, p, handlers[p], env)
     IN Apply(updateReaction(callHelperListeners(s1, s1.evt.inv, env)))

\* an active worker posts the subscription state, or something else
WidgetWorkerMessage ==
  /\ \E w \in Workers : workerState[w] \in {"activating", "activated"}
  /\ \E c \in Commands, p \in SubscriptionReplies :
       LET s0 == [State EXCEPT !.evt = Quiet, !.wevt = WEvt("message", c, p)]
           s1 == dispatchWorkerMessage(s0, msgObservers,
                                       [command |-> c, payload |-> p])
       IN Apply(forwardReplies(s1, replies[c].list, s1.wevt.inv))

WidgetNext ==
  \/ HelperRun
  \/ Initialize
  \/ UpdateWidgetVisibilities
  \/ PermissionChange
  \/ \E m \in M : DeliverWindow(m)
  \/ \E p \in Ports : WidgetDeliverPort(p)
  \/ WidgetWorkerMessage
  \/ ControllerChange
  \/ StateChange

\* the AMP page decides which widgets to show
WidgetSpec == WorkerInit /\ [][WidgetNext]_vars

\* ------------------------------------------------------ permission dialog
\* In the popup flow instance "A" is the dialog's ampMessenger, which
\* connects to its opener, and instance "B" is the popupMessenger_ that the
\* AMP page makes in subscribe().

\* config_.permissionDialogUrl
permissionDialogUrl == Url(WinOrigin("A"), "/permission-dialog.html")

\* subscribe(), as far as the dialog is concerned: the popup is opened, the
\* new messenger listens for it and the listener of
\* onNotificationPermissionRequestInteractedMessage() is registered.  The
\* registration of the worker goes over the helper frame's messenger.
subscribe(s) ==
  LET s1 == listen(s, "B", [isArray |-> TRUE, list |-> <<permissionDialogUrl>>])
      s2 == on(s1, "B", NOTIFICATION_PERMISSION_STATE,
               "onNotificationPermissionRequestInteractedMessage")
  IN [s2 EXCEPT !.interacted.state = "pending"]

\* A faulty variant of the reaction in subscribe() that leaves a dialog
\* whose user denied the permission without a reply: C23 does not hold of it.
interactedReactionGrudging(s, answer, reply) ==
  IF answer = "default"
  THEN [sendReply_(s, "B", reply[1], reply[2], [closeFrame |-> TRUE])
          EXCEPT !.interacted.replies = @ + 1]
  ELSE IF answer = "granted"
  THEN [sendReply_(s, "B", reply[1], reply[2], [closeFrame |-> TRUE])
          EXCEPT !.interacted.replies = @ + 1,
                 !.interacted.sent = @ + 1]
  ELSE [s EXCEPT !.interacted.thrown = TRUE]

\* The reaction subscribe() chains to the promise: every known permission
\* is answered with {closeFrame: true}, and 'granted' is followed by
\* subscribeForPushRemotely_().  That query and updateWidgetVisibilities()
\* go over the helper frame's messenger, which the runs of the dialog leave
\* out: the call of subscribeForPushRemotely_() is counted.
interactedReaction(s, answer, reply) ==
  IF answer \in {"denied", "default"}
  THEN [sendReply_(s, "B", reply[1], reply[2], [closeFrame |-> TRUE])
          EXCEPT !.interacted.replies = @ + 1]
  ELSE IF answer = "granted"
  THEN [sendReply_(s, "B", reply[1], reply[2], [closeFrame |-> TRUE])
          EXCEPT !.interacted.replies = @ + 1,
                 !.interacted.sent = @ + 1]
  ELSE [s EXCEPT !.interacted.thrown = TRUE]

\* the listener of onNotificationPermissionRequestInteractedMessage():
\* resolve([message, replyToFrame]); a settled promise stays as it is
onInteracted(s, message, replyToFrame) ==
  IF s.interacted.state = "pending"
  THEN interactedReaction([s EXCEPT !.interacted.state = "resolved",
                                    !.interacted.permission = message],
                          message, replyToFrame)
  ELSE s

RECURSIVE callPopupListeners(_, _, _)
callPopupListeners(s, ls, env) ==
  IF ls = <<>> THEN s
  ELSE callPopupListeners(
         IF Head(ls) = "onNotificationPermissionRequestInteractedMessage"
         THEN onInteracted(s, env.data, <<env.id, env.topic>>)
         ELSE s,
         Tail(ls), env)

\* AmpWebPushPermissionDialog.run(): a popup connects to its opener, a
\* redirected page does not
dialogRun(s, isCurrentDialogPopup) ==
  IF isCurrentDialogPopup
  THEN [connect(s, "A", "B", Wildcard) EXCEPT !.dialog.mode = "popup"]
  ELSE [s EXCEPT !.dialog.mode = "redirect"]

\* the reaction run() chains to requestNotificationPermission_()
permissionReaction(s, value) ==
  IF s.dialog.mode = "popup"
  THEN LET s1 == send(s, "A", NOTIFICATION_PERMISSION_STATE, value)
       IN [s1 EXCEPT !.dialog.permission = value,
                     !.dialog.sent = Len(s1.promises["A"])]
  ELSE [s EXCEPT !.dialog.permission = value,
                 !.dialog.redirects = @ + 1]

\* the reaction run() chains to send(): window.close() when the reply's
\* closeFrame is truthy
closeReaction(s) ==
  IF s.dialog.sent = 0 \/ s.dialog.reacted THEN s
  ELSE LET pr == s.promises["A"][s.dialog.sent]
       IN IF pr.state = "pending" THEN s
          ELSE IF pr.value.closeFrame
          THEN [s EXCEPT !.dialog.reacted = TRUE, !.dialog.closes = @ + 1]
          ELSE [s EXCEPT !.dialog.reacted = TRUE]

\* the user asks the AMP page to subscribe
Subscribe ==
  /\ interacted.state = "none"
  /\ Apply(subscribe([State EXCEPT !.evt = Quiet]))

\* the dialog's script runs in the window that subscribe() opened
DialogRun ==
  /\ interacted.state # "none"
  /\ dialog.mode = "none"
  /\ \E isCurrentDialogPopup \in BOOLEAN :
       Apply(dialogRun([State EXCEPT !.evt = Quiet], isCurrentDialogPopup))

\* the user answers the browser's permission prompt
PermissionAnswered ==
  /\ dialog.mode # "none"
  /\ dialog.permission = "none"
  /\ \E value \in NotificationPermissions :
       Apply(permissionReaction([State EXCEPT !.evt = Quiet], value))

\* a started port delivers its oldest queued envelope: the listener of the
\* AMP page runs, and in the dialog the reaction to the settled send()
PopupDeliverPort(p) ==
  /\ portq[p] # <<>>
  /\ handlers[p] # <<>>
  /\ LET env == Head(portq[p])
         s0 == [State EXCEPT !.portq[p] = Tail(@),
                             !.evt = [Evt("portmsg", handlers[p][1].m, "") EXCEPT !.env = env]]
         s1 == dispatchPort(s0, p, handlers[p], env)
     IN Apply(closeReaction(callPopupListeners(s1, s1.evt.inv, env)))

PopupInit ==
  /\ Constructed
  /\ callsLeft = 0
  /\ noiseLeft = MaxNoise
  /\ sendsLeft = 0
  /\ onLeft = 0

PopupNext ==
  \/ Subscribe
  \/ DialogRun
  \/ PermissionAnswered
  \/ \E m \in M : Noise(m)
  \/ \E m \in M : DeliverWindow(m)
  \/ \E p \in Ports : PopupDeliverPort(p)

\* the AMP page and the permission dialog it opens
PopupSpec == PopupInit /\ [][PopupNext]_vars

\* ------------------------------------------------ subscription attempts
\* The command 'amp-web-push-subscribe' of subscribeForPushRemotely_ is the
\* second command of the model.
SUBSCRIBE == "c2"

\* subscribeForPushRemotely_()
subscribeForPushRemotely_(s) ==
  [queryServiceWorker_(s, SUBSCRIBE, "null") EXCEPT !.interacted.sent = @ + 1]

\* resumeSubscribingForPushNotifications(): the permission is asked of the
\* helper frame, the rest is chained to the answer
resumeSubscribingForPushNotifications(s) ==
  LET s1 == queryNotificationPermission_(s)
  IN [s1 EXCEPT !.interacted.state = "resuming",
                !.interacted.q = Len(s1.queries)]

\* A faulty variant of the reaction in
\* resumeSubscribingForPushNotifications() that subscribes whatever the
\* helper reports.
resumeReactionEager(s) ==
  IF s.interacted.state = "resuming"
       /\ queryOutcome(s, s.interacted.q).state = "resolved"
  THEN LET s1 == [s EXCEPT !.interacted.permission =
                              queryOutcome(s, s.interacted.q).value]
           s2 == subscribeForPushRemotely_(s1)
       IN [s2 EXCEPT !.interacted.state = "subscribing",
                     !.interacted.q = Len(s2.queries)]
  ELSE s

\* The reactions of resumeSubscribingForPushNotifications() that the
\* settling of the awaited query makes run: the switch over the permission
\* and, after subscribeForPushRemotely_(), updateWidgetVisibilities().  No
\* reaction handles a rejected query.
resumeReaction(s) ==
  IF s.interacted.state \notin {"resuming", "subscribing"} THEN s
  ELSE LET o == queryOutcome(s, s.interacted.q)
       IN IF o.state = "pending" THEN s
          ELSE IF o.state = "rejected"
          THEN [s EXCEPT !.interacted.state = "rejected"]
          ELSE IF s.interacted.state = "subscribing"
          THEN [updateWidgetVisibilities(s) EXCEPT !.interacted.state = "resolved"]
          ELSE LET s1 == [s EXCEPT !.interacted.permission = o.value]
               IN IF o.value \in {"denied", "default"}
                  THEN [updateWidgetVisibilities(s1)
                          EXCEPT !.interacted.state = "resolved"]
                  ELSE IF o.value = "granted"
                  THEN LET s2 == subscribeForPushRemotely_(s1)
                       IN [s2 EXCEPT !.interacted.state = "subscribing",
                                     !.interacted.q = Len(s2.queries)]
                  ELSE [s1 EXCEPT !.interacted.state = "rejected",
                                  !.interacted.thrown = TRUE]

\* The AMP page was loaded by the redirect back from the permission dialog
\* (isContinuingSubscriptionFromRedirect()): the reaction chained to the one
\* that calls connect() resumes the subscription.  The two reactions run one
\* after the other, with no task between them.
Resume ==
  /\ listeners["B"][SERVICE_WORKER_QUERY] # NoListeners
  /\ connectCalls["A"] = <<>>
  /\ Apply(resumeSubscribingForPushNotifications(
             initialize_([State EXCEPT !.wevt = WQuiet])))

\* a started port delivers its oldest queued envelope: the helper frame's
\* listeners run, and in the AMP page the reactions to a settled query
ResumeDeliverPort(p) ==
  /\ portq[p] # <<>>
  /\ handlers[p] # <<>>
  /\ LET env == Head(portq[p])
         s0 == [State EXCEPT !.portq[p] = Tail(@),
                             !.wevt = WQuiet,
                             !.evt = [Evt("portmsg", handlers[p][1].m, "") EXCEPT !.env = env]]
         s1 == dispatchPort(s0, p, handlers[p], env)
     IN Apply(updateReaction(resumeReaction(
                callHelperListeners(s1, s1.evt.inv, env))))

\* the helper frame's script has run: instances "A" and "B" are the AMP
\* page's frameMessenger_ and the helper's ampMessenger
HelperLoaded == listeners["B"][SERVICE_WORKER_QUERY] # NoListeners

\* subscribe() was called: instances "A" and "B" are the dialog's messenger
\* and the AMP page's popupMessenger_
PopupOpened == ~HelperLoaded /\ listenCalls["B"] # <<>>

\* The attempt through the popup, and the attempt resumed after the
\* redirect.  The workers' life cycle goes on until the first call of either
\* and is left alone from then on.
AttemptNext ==
  \/ ~HelperLoaded /\ Subscribe
  \/ ~HelperLoaded /\ DialogRun
  \/ ~HelperLoaded /\ PermissionAnswered
  \/ ~HelperLoaded /\ \E p \in Ports : PopupDeliverPort(p)
  \/ ~HelperLoaded /\ ~PopupOpened /\ HelperRun
  \/ ~HelperLoaded /\ ~PopupOpened /\ ControllerChange
  \/ ~HelperLoaded /\ ~PopupOpened /\ StateChange
  \/ HelperLoaded /\ Resume
  \/ HelperLoaded /\ PermissionChange
  \/ HelperLoaded /\ \E p \in Ports : ResumeDeliverPort(p)
  \/ HelperLoaded /\ WidgetWorkerMessage
  \/ \E m \in M : DeliverWindow(m)

\* A subscription attempt of the AMP page, through the popup or resumed after
\* the redirect.  The two kinds of run share the two messenger instances of
\* the model; a run is of the kind of its first call.
AttemptSpec == WorkerInit /\ [][AttemptNext]_vars

\* ------------------------------------------- several subscribe() calls
\* subscribe() makes a new WindowMessenger at every call and stores it in
\* popupMessenger_; the instance it replaces stays alive through the observer
\* it registered on the window of the AMP page.  Instance "B" is the current
\* popupMessenger_; former holds the fields of the instances that earlier
\* calls made, and upto the last listen() call each of them made.

\* the fields of the instance "B"
Fields(s) ==
  [listening |-> s.listening["B"], connecting |-> s.connecting["B"],
   connected |-> s.connected["B"], channel |-> s.channel["B"],
   messagePort |-> s.messagePort["B"], onListenProc |-> s.onListenProc["B"],
   onChannelProc |-> s.onChannelProc["B"], messages |-> s.messages["B"],
   listeners |-> s.listeners["B"], thrown |-> s.thrown["B"],
   upto |-> Len(s.listenCalls["B"])]

\* new WindowMessenger(): the fields the constructor sets
NewFields(s) ==
  [listening |-> FALSE, connecting |-> FALSE, connected |-> FALSE,
   channel |-> 0, messagePort |-> NullPort, onListenProc |-> 0,
   onChannelProc |-> FALSE, messages |-> <<>>,
   listeners |-> [t \in DOMAIN s.listeners["B"] |-> NoListeners],
   thrown |-> FALSE, upto |-> 0]

\* instance "B" with the fields f
WithFields(s, f) ==
  [s EXCEPT !.listening["B"] = f.listening, !.connecting["B"] = f.connecting,
            !.connected["B"] = f.connected, !.channel["B"] = f.channel,
            !.messagePort["B"] = f.messagePort,
            !.onListenProc["B"] = f.onListenProc,
            !.onChannelProc["B"] = f.onChannelProc,
            !.messages["B"] = f.messages, !.listeners["B"] = f.listeners,
            !.thrown["B"] = f.thrown]

\* the instance whose listen() call k registered an observer: the g-th
\* former one, or 0 for the current popupMessenger_
OwnerOf(s, k) ==
  IF \E g \in 1..Len(s.former) : k <= s.former[g].upto
  THEN CHOOSE g \in 1..Len(s.former) :
         /\ k <= s.former[g].upto
         /\ \A h \in 1..(g - 1) : k > s.former[h].upto
  ELSE 0

\* the observer of listen() call k runs with this bound to the instance
\* that made the call
onListenConnectionMessageReceivedOf(s, k, ev) ==
  LET g == OwnerOf(s, k)
  IN IF g = 0
     THEN onListenConnectionMessageReceived_(s, "B", k, ev)
     ELSE LET mine == [Fields(s) EXCEPT !.upto = 0]
              s1 == onListenConnectionMessageReceived_(
                      WithFields(s, s.former[g]), "B", k, ev)
              theirs == [Fields(s1) EXCEPT !.upto = s.former[g].upto]
          IN [WithFields(s1, mine) EXCEPT !.former[g] = theirs]

\* subscribe(), called once more: popupMessenger_ is a new instance
subscribeAgain(s) ==
  LET s1 == [s EXCEPT !.former = Append(@, Fields(s))]
  IN subscribe(WithFields(s1, NewFields(s1)))

\* The window of the AMP page dispatches a message event to the observers
\* registered when the dispatch began, whichever instance registered them.
RECURSIVE dispatchShared(_, _, _)
dispatchShared(s, snapshot, ev) ==
  IF snapshot = <<>>
  THEN s
  ELSE LET k == Head(snapshot)
           s1 == IF k \in Range(s.winObs["B"])
                 THEN onListenConnectionMessageReceivedOf(s, k, ev)
                 ELSE s
       IN dispatchShared(s1, Tail(snapshot), ev)

\* the subscribe() calls of a run
MaxSubscribes == 3

\* the user asks the AMP page to subscribe once more
SubscribeAgain ==
  /\ interacted.state # "none"
  /\ Len(former) < MaxSubscribes - 1
  /\ Apply(subscribeAgain([State EXCEPT !.evt = Quiet]))

\* the window of the AMP page delivers its oldest queued message
DeliverShared ==
  /\ winq["B"] # <<>>
  /\ LET ev == Head(winq["B"])
         s0 == [State EXCEPT !.winq["B"] = Tail(@),
                             !.wevt = WQuiet,
                             !.evt = [Evt("winmsg", "B", "") EXCEPT !.ev = ev]]
     IN Apply(dispatchShared(s0, winObs["B"], ev))

\* a third party posts a message to the window of the AMP page
NoiseShared ==
  /\ noiseLeft > 0
  /\ winObs["B"] # <<>>
  /\ \E ev \in NoiseEvents :
       Apply(dispatchShared([State EXCEPT !.noiseLeft = @ - 1,
                                          !.evt = [Evt("winmsg", "B", "") EXCEPT !.ev = ev]],
                            winObs["B"], ev))

AgainPopupNext ==
  \/ Subscribe
  \/ SubscribeAgain
  \/ DialogRun
  \/ NoiseShared
  \/ DeliverShared
  \/ \E p \in Ports : PopupDeliverPort(p)

\* the AMP page, asked to subscribe several times, and a permission dialog
AgainPopupSpec == PopupInit /\ [][AgainPopupNext]_vars

\* ------------------------------------------------------------ properties
\* origin normalizes to an entry of the list
OriginListed(origin, list) ==
  \E i \in 1..Len(list) : <<list[i][1], "">> = <<origin[1], "">>

\* some observer registered on the window of m lists the origin
ListedBySome(m, origin) ==
  \E k \in Range(winObs[m]) : OriginListed(origin, listenCalls[m][k].allowed)

\* the step left everything an instance owns, and every queue, as it was
NothingChanged ==
  UNCHANGED <<listening, connecting, connected, channel, messagePort,
              onListenProc, onConnectProc, onChannelProc,
              listenCalls, connectCalls, winObs, winq, handlers, portq,
              messages, listeners, promises, held,
              thrown, hsWinSent, hsPortSent, nextChan, nextId>>

\* the step delivered a window message and left the instance it was
\* delivered to listening as before: nothing but the queue it came from changed
StillListening ==
  UNCHANGED <<listening, connecting, connected, channel, messagePort,
              onListenProc, onConnectProc, onChannelProc,
              listenCalls, connectCalls, winObs, handlers, portq,
              messages, listeners, promises, held,
              thrown, hsWinSent, hsPortSent, nextChan, nextId>>

\* C2: while a messenger is listening, a window message whose origin
\* normalizes to no entry of the allowedOrigins of any registered observer
\* changes nothing: messagePort, connected, the listen() promises and the
\* registered observers stay as they were, whatever the message carries.
C2_DisallowedOriginIgnored ==
  [][ (evt'.op = "winmsg" /\ ~ListedBySome(evt'.m, evt'.ev.origin))
        => StillListening ]_vars

\* C2 witness: a handshake that carries a port was delivered from an origin
\* that the two-entry list of the listening instance does not name.
C2_Witness ==
  /\ evt.op = "winmsg"
  /\ evt.ev.topic = CONNECT_HANDSHAKE
  /\ IsPort(evt.ev.port)
  /\ winObs[evt.m] # <<>>
  /\ ~ListedBySome(evt.m, evt.ev.origin)
  /\ \E k \in Range(winObs[evt.m]) : Len(listenCalls[evt.m][k].allowed) = 2
  /\ messagePort[evt.m] = NullPort
  /\ ~connected[evt.m]

\* what the handshake observer must drop
Rejected(m, ev) ==
  \/ ~ListedBySome(m, ev.origin)
  \/ ev.topic # CONNECT_HANDSHAKE
  \/ ev.port = NullPort

\* C3 (as claimed): every rejected window message (wrong origin, wrong topic,
\* no data, a handshake that carries no port) raises no error and leaves the
\* messenger listening.
C3_RejectedIsSilent ==
  [][ (evt'.op = "winmsg" /\ winObs[evt'.m] # <<>> /\ Rejected(evt'.m, evt'.ev))
        => StillListening ]_vars

\* a valid handshake was accepted by an observer of m
Accepted(m) ==
  \E k \in 1..Len(listenCalls[m]) : listenCalls[m][k].inner = "resolved"

\* C4 (as claimed): once a valid handshake was accepted, every later window
\* message is ignored: the port is not replaced, no channel handler is
\* attached and no handshake is sent, however often listen() was called.
C4_LaterHandshakesIgnored ==
  [][ (evt'.op = "winmsg" /\ Accepted(evt'.m))
        => /\ messagePort' = messagePort
           /\ handlers' = handlers
           /\ hsPortSent' = hsPortSent ]_vars

\* the first listen() of m is pending and its observer is registered
ListeningPending(m) ==
  /\ winObs[m] # <<>>
  /\ \A k \in 1..Len(listenCalls[m]) : listenCalls[m][k].inner = "pending"

\* C5 (as claimed): a second listen(array) on an instance whose first
\* listen() is pending rejects with 'already listening', registers no second
\* observer and leaves the state of the first call unchanged.
C5_SecondListenRejects ==
  [][ (/\ evt'.op = "listen"
       /\ ListeningPending(evt'.m)
       /\ evt'.res # "allowedOrigins should be a string array")
        => /\ evt'.res = "Already listening for connections."
           /\ NothingChanged ]_vars

\* the connect() call had both of its arguments
HadArguments(res) ==
  /\ res # "Provide a valid Window context to connect to."
  /\ res # "Provide an expected origin for the remote Window"

\* C6: on a connected instance listen() and connect(window, origin) reject
\* with 'Already connected.', and no call changes anything or transmits.
C6_ConnectedRejectsCalls ==
  [][ (evt'.op \in {"listen", "connect"} /\ connected[evt'.m])
        => /\ HadArguments(evt'.res) => evt'.res = "Already connected."
           /\ NothingChanged ]_vars

\* C6 witness: connect() was rejected on an instance that became connected
\* in the listening role, with its pending exchange and port in place.
C6_Witness ==
  /\ evt.op = "connect"
  /\ evt.res = "Already connected."
  /\ connected[evt.m]
  /\ \E k \in 1..Len(listenCalls[evt.m]) : listenCalls[evt.m][k].outer = "resolved"
  /\ IsPort(messagePort[evt.m])
  /\ connectCalls[evt.m] = <<>>

\* a connect() of m is outstanding
Connecting(m) ==
  \E k \in 1..Len(connectCalls[m]) : connectCalls[m][k].promise = "pending"

HasConnectHandler(m) ==
  \E p \in Ports : \E i \in 1..Len(handlers[p]) :
    handlers[p][i].m = m /\ handlers[p][i].kind = "connect"

\* C7 (as claimed): while a connect() is outstanding a further connect()
\* rejects with 'Already connecting.' and a listen() rejects; after listen() a
\* connect() rejects; so no instance has both a handshake observer and a
\* connecting-role handler, and connect() never replaces the port of an
\* earlier connect().
C7_SingleShot ==
  [][ /\ (evt'.op = "connect" /\ HadArguments(evt'.res) /\ Connecting(evt'.m)
            /\ ~connected[evt'.m])
          => (evt'.res = "Already connecting." /\ messagePort' = messagePort)
      /\ (evt'.op = "listen" /\ Connecting(evt'.m)) => evt'.res # "pending"
      /\ (evt'.op = "connect" /\ listenCalls[evt'.m] # <<>>) => evt'.res # "pending"
      /\ \A m \in M : ~(winObs'[m] # <<>> /\ HasConnectHandler(m)') ]_vars

\* C8 (as claimed): connect() without a remoteContext or without an
\* expectedRemoteOrigin rejects and does nothing else: no channel, no port,
\* no port handler, no handshake posted.
C8_MissingArgumentNoEffect ==
  [][ (evt'.op = "connect" /\ ~HadArguments(evt'.res))
        => /\ channel' = channel
           /\ messagePort' = messagePort
           /\ handlers' = handlers
           /\ hsWinSent' = hsWinSent
           /\ winq' = winq ]_vars

\* the handshake that the connect() of C posted is queued at the window of L,
\* and an observer of L lists the origin of C
InFlight(L, C) ==
  /\ connectCalls[C] # <<>>
  /\ \E i \in 1..Len(winq[L]) : winq[L][i].port = Peer(connectCalls[C][1].port)
  /\ ListedBySome(L, Url(WinOrigin(C), ""))

\* L made its one listen() call and no connect(), C made its one connect()
\* call and no listen(), and no third party got a handshake of its own
\* through to L
TwoParty(L, C) ==
  /\ Len(listenCalls[L]) = 1
  /\ connectCalls[L] = <<>>
  /\ listenCalls[C] = <<>>
  /\ Len(connectCalls[C]) = 1
  /\ messagePort[L] # UndefinedPort
  /\ messagePort[L][1] >= 0

\* the handshake between L and C is complete
Established(L, C) ==
  /\ connectCalls[C] # <<>>
  /\ connected[L] /\ connected[C]
  /\ \E k \in 1..Len(listenCalls[L]) : listenCalls[L][k].outer = "resolved"
  /\ connectCalls[C][1].promise = "resolved"
  /\ messagePort[C] = connectCalls[C][1].port
  /\ messagePort[L] = Peer(messagePort[C])
  /\ hsWinSent[C] = 1 /\ hsPortSent[L] = 1
  /\ hsWinSent[L] = 0 /\ hsPortSent[C] = 0

\* C1: when L listens and the handshake of C's connect() is on its way to L
\* from an origin L allows, then (unless L or C makes a further call, or a
\* third party's handshake reaches L first) both end up connected, both
\* promises resolved, their ports the two ends of C's channel, and exactly
\* one CONNECT_HANDSHAKE went each way.
C1_HandshakeCompletes ==
  \A L \in M :
    (InFlight(L, Other(L)) /\ TwoParty(L, Other(L)))
      ~> (Established(L, Other(L)) \/ ~TwoParty(L, Other(L)))

\* C1 witness: an established two-party handshake.
C1_Witness ==
  \E L \in M : Established(L, Other(L)) /\ TwoParty(L, Other(L))

\* the promises of the send() calls made on m while it was connected, by
\* their place in promises[m]
Sends(m) ==
  {r \in 1..Len(promises[m]) :
     promises[m][r].kind = "send" /\ promises[m][r].connected}

\* the pending map of m holds the exchange of its r-th promise
Pending(m, r) ==
  /\ promises[m][r].id \in DOMAIN messages[m]
  /\ messages[m][promises[m][r].id].promiseResolver = r

\* C9: the exchange of a send() made on a connected messenger is in the
\* pending map exactly as long as its promise is unresolved; the first reply
\* envelope that carries its id resolves the promise with the envelope's data
\* and a reply function for the id and removes the exchange; no other
\* envelope touches the promise, and its resolver runs once at most.
C9_SendResolvedOnce ==
  /\ [](\A m \in M : \A r \in Sends(m) :
          /\ (promises[m][r].state = "pending") <=> Pending(m, r)
          /\ promises[m][r].n = (IF promises[m][r].state = "pending" THEN 0 ELSE 1))
  /\ [][ \A m \in M : \A r \in Sends(m) :
           promises[m][r].state = "pending" =>
             IF /\ evt'.op = "portmsg" /\ evt'.m = m
                /\ evt'.env.isReply /\ evt'.env.id = promises[m][r].id
             THEN /\ promises'[m][r].state = "resolved"
                  /\ promises'[m][r].value = evt'.env.data
                  /\ promises'[m][r].fn =
                       <<promises[m][r].id, messages[m][promises[m][r].id].topic>>
                  /\ promises[m][r].id \notin DOMAIN messages'[m]
             ELSE promises'[m][r] = promises[m][r] ]_vars

\* C9 witness: a send() was resolved with the data of the reply, and a
\* further reply envelope with its id has arrived since.
C9_Witness ==
  \E m \in M : \E r \in Sends(m) :
    /\ promises[m][r].state = "resolved"
    /\ promises[m][r].value = "d2"
    /\ promises[m][r].n = 1
    /\ evt.op = "portmsg" /\ evt.m = m
    /\ evt.env.isReply /\ evt.env.id = promises[m][r].id
    /\ evt.inv # <<>>

\* C10 (as claimed): an envelope with isReply = true whose id matches no
\* pending exchange is dropped: no on() listener is invoked, and the pending
\* map and the listener map are unchanged.
C10_UnmatchedReplyDropped ==
  [][ (/\ evt'.op = "portmsg"
       /\ evt'.env.isReply
       /\ evt'.env.id \notin DOMAIN messages[evt'.m])
        => /\ evt'.inv = <<>>
           /\ messages' = messages
           /\ listeners' = listeners ]_vars

\* the step delivers to evt'.m a reply envelope whose id is in its pending map
MatchedReply ==
  /\ evt'.op = "portmsg"
  /\ evt'.env.isReply
  /\ evt'.env.id \in DOMAIN messages[evt'.m]

\* every port has one handler at most (listen() took effect once per instance)
SingleHandlers == \A p \in Ports : Len(handlers[p]) <= 1

\* the r-th promise of m is the one its latest send or reply with that id made
Latest(m, r) ==
  \A r2 \in 1..Len(promises[m]) :
    promises[m][r2].id = promises[m][r].id => r2 <= r

\* C11: reply chains work hop after hop.  The latest send or reply an
\* instance made with an id keeps a pending exchange under that id until it
\* is answered; a reply envelope delivered to a connected instance that has
\* such an exchange resolves exactly the promise of that exchange, with the
\* envelope's data and a reply function for the same id, resolves no other
\* promise, and is handed to no topic listener.
C11_ReplyChain ==
  /\ [](\A m \in M : \A r \in 1..Len(promises[m]) :
          (promises[m][r].state = "pending" /\ Latest(m, r)) => Pending(m, r))
  /\ [][ (MatchedReply /\ SingleHandlers
            /\ promises[evt'.m][messages[evt'.m][evt'.env.id].promiseResolver].connected)
          => LET m == evt'.m
                 id == evt'.env.id
                 r == messages[m][id].promiseResolver
             IN /\ evt'.inv = <<>>
                /\ promises[m][r].state = "pending"
                /\ promises'[m][r].state = "resolved"
                /\ promises'[m][r].value = evt'.env.data
                /\ promises'[m][r].fn = <<id, messages[m][id].topic>>
                /\ promises'[m][r].n = 1
                /\ \A r2 \in (1..Len(promises[m])) \ {r} :
                     promises'[m][r2] = promises[m][r2]
                /\ promises'[Other(m)] = promises[Other(m)] ]_vars

\* C11 witness: three hops.  The send of m was resolved with d2, the reply
\* d2 of the other side with d3, and the reply d3 of m has just been resolved
\* with d4, all under one id; the delivery invoked no listener.
C11_Witness ==
  \E m \in M : \E r1, r2 \in 1..Len(promises[m]) :
    \E r3 \in 1..Len(promises[Other(m)]) :
      /\ promises[m][r1].kind = "send" /\ promises[m][r1].state = "resolved"
      /\ promises[m][r1].value = "d2"
      /\ promises[Other(m)][r3].kind = "reply"
      /\ promises[Other(m)][r3].id = promises[m][r1].id
      /\ promises[Other(m)][r3].state = "resolved"
      /\ promises[Other(m)][r3].value = "d3"
      /\ promises[m][r2].kind = "reply"
      /\ promises[m][r2].id = promises[m][r1].id
      /\ promises[m][r2].state = "resolved"
      /\ promises[m][r2].value = "d4"
      /\ promises[m][r2].fn = <<promises[m][r1].id, "t1">>
      /\ evt.op = "portmsg" /\ evt.m = m /\ evt.env.data = "d4"
      /\ evt.inv = <<>>
      /\ Len(promises[m]) = 2 + (IF connectCalls[m] = <<>> THEN 1 ELSE 0)

\* the step delivers to m a reply envelope that carries the id of its r-th promise
Answers(m, r) ==
  /\ evt'.op = "portmsg" /\ evt'.m = m
  /\ evt'.env.isReply /\ evt'.env.id = promises[m][r].id

\* C12: with several sends outstanding on one connected messenger, on the
\* same or on different topics, a reply resolves exactly the send whose id it
\* carries, with its own data, in whatever order the replies arrive; every
\* other outstanding send stays pending with its exchange in place.
C12_RepliesByIdOnly ==
  [][ \A m \in M : \A r1, r2 \in Sends(m) :
        (/\ r1 # r2
         /\ promises[m][r1].state = "pending"
         /\ promises[m][r2].state = "pending"
         /\ Answers(m, r1))
        => /\ promises[m][r1].id # promises[m][r2].id
           /\ promises'[m][r1].state = "resolved"
           /\ promises'[m][r1].value = evt'.env.data
           /\ promises'[m][r2] = promises[m][r2]
           /\ Pending(m, r2)' ]_vars

\* C12 witness: of two sends of one messenger the later was answered first,
\* with d3, and the earlier has just been answered with d2.
C12_Witness ==
  \E m \in M : \E r1, r2 \in Sends(m) :
    /\ r1 < r2
    /\ promises[m][r2].state = "resolved" /\ promises[m][r2].value = "d3"
    /\ promises[m][r1].state = "resolved" /\ promises[m][r1].value = "d2"
    /\ evt.op = "portmsg" /\ evt.m = m
    /\ evt.env.isReply /\ evt.env.id = promises[m][r1].id

\* a controller exists and its state is 'activated'
Controlled == controller # 0 /\ workerState[controller] = "activated"

PostedBy(i) == {k \in 1..Len(posted) : posted[k].by = i}

\* C14: a unicast(command, payload) call posts nothing while its promise is
\* pending and exactly one message once it is resolved; the message is
\* {command, payload}, it goes to the controller, and it is posted in a step
\* that ends with a non-null controller whose state is 'activated'.  A call
\* made while no activated worker controls the page posts nothing and its
\* promise is pending; a call made while one does posts in the same turn.
C14_UnicastWhenControlled ==
  /\ [](\A i \in 1..Len(waits) : waits[i].kind = "unicast" =>
          /\ Cardinality(PostedBy(i)) = (IF waits[i].state = "resolved" THEN 1 ELSE 0)
          /\ \A k \in PostedBy(i) :
               /\ posted[k].to # 0
               /\ posted[k].state = "activated"
               /\ posted[k].command = waits[i].command
               /\ posted[k].payload = waits[i].payload)
  /\ [][ /\ Len(posted') >= Len(posted)
         /\ \A k \in 1..Len(posted) : posted'[k] = posted[k]
         /\ \A k \in (Len(posted) + 1)..Len(posted') :
              /\ Controlled'
              /\ posted'[k].to = controller'
              /\ posted'[k].by \in 1..Len(waits')
              /\ waits'[posted'[k].by].kind = "unicast"
         /\ \A i \in (Len(waits) + 1)..Len(waits') : waits'[i].kind = "unicast" =>
              IF Controlled
              THEN \E k \in (Len(posted) + 1)..Len(posted') : posted'[k].by = i
              ELSE posted' = posted /\ waits'[i].state = "pending" ]_vars

\* C14 witness: a unicast('c2', 'p2') called while the page was uncontrolled
\* has posted its one message to worker 2 after the controllerchange, while a
\* later unicast is still waiting.
C14_Witness ==
  \E i \in 1..Len(waits) : \E k \in 1..Len(posted) :
    /\ waits[i].kind = "unicast" /\ waits[i].observed
    /\ waits[i].command = "c2" /\ waits[i].payload = "p2"
    /\ posted[k] = [by |-> i, to |-> 2, state |-> "activated",
                    command |-> "c2", payload |-> "p2"]
    /\ \E j \in 1..Len(waits) :
         j > i /\ waits[j].kind = "unicast" /\ waits[j].state = "pending"

\* how often the listener record with this id was invoked in the last step
Invocations(inv, id) == Cardinality({k \in 1..Len(inv) : inv[k][1] = id})

\* C15 (as claimed): however often listen() is called, at most one message
\* observer is attached to navigator.serviceWorker, so a worker message
\* invokes every listener record of its command once at most.
C15_OneObserver ==
  /\ [](msgObservers <= 1)
  /\ [][ wevt'.op = "message" =>
           \A id \in 1..MaxRecords : Invocations(wevt'.inv, id) <= 1 ]_vars

\* C16: a worker message delivered to a listening page invokes, with
\* data.payload, every listener record of its command and no other; a
\* once() record is invoked exactly once and is gone afterwards, so a later
\* message invokes the on() records only, which stay until off(command).
\* Without an observer nothing is invoked.
C16_OnceThenOn ==
  [][ wevt'.op = "message" =>
        LET c == wevt'.command
            recs == replies[c].list
        IN /\ \A k \in 1..Len(wevt'.inv) :
                /\ wevt'.inv[k][2] = wevt'.payload
                /\ \E j \in 1..Len(recs) : recs[j].id = wevt'.inv[k][1]
           /\ \A c2 \in Commands \ {c} : replies'[c2] = replies[c2]
           /\ IF msgObservers = 0
              THEN wevt'.inv = <<>> /\ replies' = replies
              ELSE /\ \A j \in 1..Len(recs) :
                        /\ Invocations(wevt'.inv, recs[j].id) >= 1
                        /\ recs[j].onceListenerOnly
                             => Invocations(wevt'.inv, recs[j].id) = 1
                   /\ replies'[c].list =
                        SelectSeq(recs, LAMBDA r : ~r.onceListenerOnly) ]_vars

\* C16 witness: the first message for c1 has invoked the on() record and the
\* once() record with its payload, and only the on() record is left.
C16_Witness ==
  /\ msgObservers = 1
  /\ wevt = [op |-> "message", command |-> "c1", payload |-> "p2",
             inv |-> << <<1, "p2">>, <<2, "p2">> >>]
  /\ replies["c1"].list = <<[id |-> 1, callback |-> Callback("cb"), onceListenerOnly |-> FALSE]>>

\* how the promise of the k-th query of the AMP page stands
Outcome(k) == queryOutcome(State, k)

\* the helper frame's page is controlled by an activated worker
HelperReady == connected["B"] /\ Controlled

\* the step delivered to the helper frame a request on this topic
HelperHandles(topic) ==
  /\ evt'.op = "portmsg"
  /\ evt'.m = "B"
  /\ evt'.env.topic = topic
  /\ ~evt'.env.isReply
  /\ evt'.inv # <<>>

\* The helper frame makes a listener record and a readiness wait for every
\* query it handles and one wait before, in run(): the unicast of the query
\* behind this record has posted its message to the worker.
Forwarded(record) == waits[record.id + 1].state = "resolved"

\* the envelope that answers the request behind a reply function
ReplyEnvelope(replyToFrame, result) ==
  [id |-> replyToFrame[1], topic |-> replyToFrame[2], isReply |-> TRUE,
   data |-> [success |-> TRUE, error |-> "undefined", result |-> result]]

\* C17 (as claimed): while the helper frame is connected and controlled by
\* an activated worker, (1) handling a SERVICE_WORKER_QUERY request {T, P}
\* posts exactly {command: T, payload: P} to the controller, (2) when the
\* worker then posts {command: T, payload: R}, the helper answers the request
\* with R in an envelope that carries the request's id, and (3) that
\* envelope resolves the AMP page's promise with R.
C17_QueryRoundTrip ==
  /\ [][ (HelperHandles(SERVICE_WORKER_QUERY) /\ HelperReady)
           => /\ Len(posted') = Len(posted) + 1
              /\ posted'[Len(posted')].command = evt'.env.data.topic
              /\ posted'[Len(posted')].payload = evt'.env.data.payload
              /\ posted'[Len(posted')].to = controller ]_vars
  /\ [][ (wevt'.op = "message" /\ HelperReady)
           => \A j \in 1..Len(replies[wevt'.command].list) :
                LET record == replies[wevt'.command].list[j]
                IN Forwarded(record)
                     => \E n \in 1..Len(portq'[Peer(messagePort["B"])]) :
                          portq'[Peer(messagePort["B"])][n] =
                            ReplyEnvelope(record.callback, wevt'.payload) ]_vars
  /\ [][ (evt'.op = "portmsg" /\ evt'.m = "A" /\ evt'.env.isReply
            /\ evt'.env.topic = SERVICE_WORKER_QUERY)
           => \A k \in 1..Len(queries) :
                (queries[k].promise # 0
                   /\ promises["A"][queries[k].promise].id = evt'.env.id
                   /\ Outcome(k).state = "pending")
                  => Outcome(k)' = [state |-> "resolved",
                                    value |-> evt'.env.data.result] ]_vars

\* a query of the AMP page was answered by the worker, end to end
C17_Answered ==
  \E k \in 1..Len(queries) :
    /\ queries[k].topic = SERVICE_WORKER_QUERY
    /\ Outcome(k).state = "resolved"
    /\ Outcome(k).value \in Payloads

\* the queue of the port on which the AMP page receives
ToPage == portq[Peer(messagePort["B"])]

\* what SERVICE_WORKER_STATE must report of a controller reference
StateOf(w) ==
  IF w = 0
  THEN [isControllingFrame |-> FALSE, url |-> "null", state |-> "null"]
  ELSE [isControllingFrame |-> TRUE, url |-> scriptURL(w),
        state |-> workerState[w]]

\* the step delivered to the AMP page the reply to its query k
Replied(k) ==
  /\ evt'.op = "portmsg"
  /\ evt'.m = "A"
  /\ evt'.env.isReply
  /\ queries[k].promise # 0
  /\ promises["A"][queries[k].promise].id = evt'.env.id
  /\ Outcome(k).state = "pending"

\* C18: the helper answers a SERVICE_WORKER_STATE request at once with
\* {success: true, result: {isControllingFrame, url, state}} computed from
\* the controller at that moment, {false, null, null} without a controller;
\* the AMP page's query resolves to that result.
C18_StateReply ==
  /\ [][ HelperHandles(SERVICE_WORKER_STATE)
           => ToPage' = Append(ToPage,
                               ReplyEnvelope(<<evt'.env.id, SERVICE_WORKER_STATE>>,
                                             StateOf(controller))) ]_vars
  /\ [][ \A k \in 1..Len(queries) :
           (Replied(k) /\ queries[k].topic = SERVICE_WORKER_STATE)
             => Outcome(k)' = [state |-> "resolved",
                               value |-> evt'.env.data.result] ]_vars

\* C18 witness: a state query handled while no worker controlled the frame
\* has resolved to {isControllingFrame: false, url: null, state: null}.
C18_Witness ==
  \E k \in 1..Len(queries) :
    /\ queries[k].topic = SERVICE_WORKER_STATE
    /\ Outcome(k).state = "resolved"
    /\ Outcome(k).value = StateOf(0)

\* the replies the helper frame has sent to the request with this id
RepliesTo(id) ==
  {r \in 1..Len(promises["B"]) :
     promises["B"][r].kind = "reply" /\ promises["B"][r].id = id}

\* C19: a SERVICE_WORKER_REGISTRATION request that carries workerUrl and
\* registrationOptions is answered exactly once, when register() settles,
\* with success = true whether it fulfils or rejects; the promise of
\* registerServiceWorker() is never rejected.
C19_RegistrationAlwaysSucceeds ==
  /\ [][ (HelperHandles(SERVICE_WORKER_REGISTRATION)
            /\ evt'.env.data.workerUrl # "undefined"
            /\ evt'.env.data.registrationOptions # "undefined")
           => /\ Len(registrations') = Len(registrations) + 1
              /\ registrations'[Len(registrations')] =
                   [replyToFrame |-> <<evt'.env.id, SERVICE_WORKER_REGISTRATION>>,
                    state |-> "pending"]
              /\ ToPage' = ToPage ]_vars
  /\ [][ \A i \in 1..Len(registrations) :
           registrations'[i].state # registrations[i].state
             => /\ Len(ToPage') = Len(ToPage) + 1
                /\ ToPage'[Len(ToPage')].id = registrations[i].replyToFrame[1]
                /\ ToPage'[Len(ToPage')].isReply
                /\ ToPage'[Len(ToPage')].data.success ]_vars
  /\ [](\A i \in 1..Len(registrations) :
          Cardinality(RepliesTo(registrations[i].replyToFrame[1]))
            = IF registrations[i].state = "pending" THEN 0 ELSE 1)
  /\ [](\A k \in 1..Len(queries) :
          queries[k].topic = SERVICE_WORKER_REGISTRATION
            => Outcome(k).state # "rejected")

\* C19 witness: register() has rejected and the promise of
\* registerServiceWorker() has resolved all the same.
C19_Witness ==
  /\ \E i \in 1..Len(registrations) : registrations[i].state = "rejected"
  /\ \E k \in 1..Len(queries) :
       /\ queries[k].topic = SERVICE_WORKER_REGISTRATION
       /\ Outcome(k).state = "resolved"

\* C20: the promise of queryHelperFrame_ stays pending until the reply with
\* the request's id is delivered; that reply resolves it with reply.result
\* when reply.success is true and rejects it with reply.error otherwise, and
\* nothing changes it afterwards.
C20_QueryFollowsReply ==
  /\ [][ \A k \in 1..Len(queries) :
           Replied(k)
             => Outcome(k)' =
                  IF evt'.env.data.success
                  THEN [state |-> "resolved", value |-> evt'.env.data.result]
                  ELSE [state |-> "rejected", value |-> evt'.env.data.error] ]_vars
  /\ [][ \A k \in 1..Len(queries) :
           IF Outcome(k).state = "pending"
           THEN Outcome(k)'.state # "pending" => Replied(k)
           ELSE Outcome(k)' = Outcome(k) ]_vars
  /\ [][ Len(queries') > Len(queries)
           => Outcome(Len(queries))'.state = "pending" ]_vars

\* C20 witness: one query was rejected with the error of its reply, and
\* another resolved with the result of its own.
C20_Witness ==
  /\ Len(queries) = 2
  /\ Outcome(1) = [state |-> "rejected", value |-> "e1"]
  /\ Outcome(2) = [state |-> "resolved", value |-> "r1"]

\* the helper frame has registered this handler for the topic
Wired(topic, callback) == callback \in Range(listeners["B"][topic])

AllWired ==
  /\ Wired(NOTIFICATION_PERMISSION_STATE,
           "onAmpPageMessageReceived_NotificationPermissionState")
  /\ Wired(SERVICE_WORKER_STATE, "onAmpPageMessageReceived_ServiceWorkerState")
  /\ Wired(SERVICE_WORKER_REGISTRATION,
           "onAmpPageMessageReceived_ServiceWorkerRegistration")
  /\ Wired(SERVICE_WORKER_QUERY, "onAmpPageMessageReceived_ServiceWorkerQuery")

\* C21: whenever the helper frame listens for a handshake or has a bound
\* port, the handlers of the four helper topics are registered, and every
\* request on one of these topics that reaches the frame runs a handler.
C21_WiredBeforeListen ==
  /\ []((winObs["B"] # <<>> \/ IsPort(messagePort["B"])) => AllWired)
  /\ [][ (evt'.op = "portmsg" /\ evt'.m = "B" /\ ~evt'.env.isReply
            /\ evt'.env.topic \in HelperTopics)
           => Len(evt'.inv) = 1 ]_vars

\* C21 witness: a request on a helper topic reached the frame over its bound
\* port and ran the topic's handler.
C21_Witness ==
  /\ IsPort(messagePort["B"])
  /\ evt.op = "portmsg"
  /\ evt.m = "B"
  /\ evt.env.topic = NOTIFICATION_PERMISSION_STATE
  /\ evt.inv = <<"onAmpPageMessageReceived_NotificationPermissionState">>

\* the three calls of setWidgetVisibilities that show one category only
Only(category) ==
  { <<c, c = category>> : c \in {"unsubscribed", "subscribed", "blocked"} }

\* each category was set exactly once, and only this one is visible
SetOnce(category) ==
  /\ Len(widgetCalls) = 3
  /\ Range(widgetCalls) = Only(category)

\* C22 (as claimed): when the promise of updateWidgetVisibilities() has
\* resolved, each widget category was set exactly once for the state that
\* the queries observed: only "blocked" for a denied permission, only
\* "unsubscribed" without an activated worker or with a subscription reply
\* false, only "subscribed" with a subscription reply true.
C22_WidgetsSetOnResolve ==
  update.promise = "resolved" =>
    IF Outcome(update.q[1]).value = "denied"
    THEN SetOnce("blocked")
    ELSE IF ~isServiceWorkerActivated(Outcome(update.q[2]).value)
    THEN SetOnce("unsubscribed")
    ELSE /\ update.q[3] # 0
         /\ Outcome(update.q[3]).state = "resolved"
         /\ Outcome(update.q[3]).value = "true" => SetOnce("subscribed")
         /\ Outcome(update.q[3]).value = "false" => SetOnce("unsubscribed")

\* the flow of updateWidgetVisibilities() came to its end with the worker's
\* subscription reply
C22_Subscribed ==
  /\ update.stage = "done"
  /\ update.q[3] # 0
  /\ SetOnce("subscribed")

\* the queue of the port on which the dialog receives
ToDialog == portq[Peer(messagePort["B"])]

\* the step delivered to the AMP page the dialog's permission message
Interacts ==
  /\ evt'.op = "portmsg"
  /\ evt'.m = "B"
  /\ evt'.env.topic = NOTIFICATION_PERMISSION_STATE
  /\ ~evt'.env.isReply
  /\ evt'.inv # <<>>

\* the step delivered to the dialog a reply to the message it sent
Answered ==
  /\ evt'.op = "portmsg"
  /\ evt'.m = "A"
  /\ evt'.env.isReply
  /\ dialog.sent # 0
  /\ promises["A"][dialog.sent].id = evt'.env.id
  /\ promises["A"][dialog.sent].state = "pending"

\* C23: whichever permission the dialog sends, the AMP page answers the
\* message when it is delivered with one reply {closeFrame: true} that
\* carries the message's id, and never replies again; the dialog calls
\* window.close() in the step that delivers a reply with a truthy closeFrame
\* to it, and in no other step.
C23_PopupClosed ==
  /\ [][ Interacts
           => /\ evt'.env.data \in NotificationPermissions
              /\ ToDialog' = Append(ToDialog,
                                    [id |-> evt'.env.id,
                                     topic |-> NOTIFICATION_PERMISSION_STATE,
                                     isReply |-> TRUE,
                                     data |-> [closeFrame |-> TRUE]])
              /\ interacted'.replies = 1 ]_vars
  /\ [][ interacted'.replies # interacted.replies => Interacts ]_vars
  /\ [][ (Answered /\ evt'.env.data.closeFrame)
           => dialog'.closes = dialog.closes + 1 ]_vars
  /\ [][ dialog'.closes # dialog.closes
           => Answered /\ evt'.env.data.closeFrame /\ dialog'.closes = 1 ]_vars

\* C23 witness: the user denied the permission, the AMP page replied and
\* the dialog has closed its window.
C23_Witness ==
  /\ dialog.permission = "denied"
  /\ interacted.permission = "denied"
  /\ interacted.replies = 1
  /\ dialog.closes = 1

\* ------------------------------------------------------------------ C24
\* The port p delivers its oldest envelope to the channel handler of one
\* instance in this step.
Receives(p) ==
  /\ evt'.op = "portmsg"
  /\ portq[p] # <<>>
  /\ portq'[p] = Tail(portq[p])
  /\ Len(handlers[p]) = 1
  /\ handlers[p][1].kind = "channel"

\* the listeners registered with on() for a topic, in registration order
Registered(m, topic) ==
  IF listeners[m][topic] = NoListeners THEN <<>> ELSE listeners[m][topic]

IsMatchedReply(m, env) ==
  env.isReply /\ env.id \in DOMAIN messages[m]

\* C24: an inbound envelope that is not a matched reply invokes every
\* listener registered with on() for its topic, each exactly once and in
\* registration order, each given the reply function bound to the envelope's
\* id and topic; listeners of other topics are not invoked.
C24_ListenersInvoked ==
  [][\A p \in Ports :
       Receives(p) =>
         LET m == handlers[p][1].m
             env == Head(portq[p])
         IN ~IsMatchedReply(m, env) =>
              /\ evt'.inv = Registered(m, env.topic)
              /\ evt'.inv # <<>> => <<env.id, env.topic>> \in held'[m]]_vars

\* ------------------------------------------------------------------ C25
\* the listeners of a list other than callback, in their order
Others(list, callback) ==
  SelectSeq(list, LAMBDA listener : listener # callback)

\* C25: on a WindowMessenger off(topic, cb) leaves cb unregistered for the
\* topic and every other listener of the topic and of the other topics
\* registered; off(topic) without a callback leaves no listener of the
\* topic; off for a topic or a callback that is not registered raises no
\* error and changes nothing.
C25_Off ==
  [][\A m \in M, topic \in AllTopics, cb \in Listeners \cup {"undefined"} :
       (evt'.op = "off" /\ evt'.m = m /\ evt'.env.topic = topic /\ evt'.env.data = cb)
       => /\ evt'.res # "TypeError"
          /\ \A n \in M : \A other \in DOMAIN listeners[n] :
               (n # m \/ other # topic) =>
                 listeners'[n][other] = listeners[n][other]
          /\ cb = "undefined" => Registered(m, topic)' = <<>>
          /\ cb # "undefined" =>
               /\ Others(Registered(m, topic)', cb) = Registered(m, topic)'
               /\ Others(Registered(m, topic), cb) = Registered(m, topic)'
          /\ (cb # "undefined" /\ Others(Registered(m, topic), cb) = Registered(m, topic))
               => listeners' = listeners
          /\ (cb = "undefined" /\ listeners[m][topic] = NoListeners)
               => listeners' = listeners]_vars

\* ------------------------------------------------------------------ C26
\* C26: deleteListenerRecord(command, record) removes exactly the record
\* identical to record from the list of command and keeps the order of the
\* others; it raises no error and changes nothing when the record or the
\* list is absent, also after deleteListenerRecords(command).
C26_DeleteRecord ==
  [][\A c \in Commands, id \in 1..MaxRecords :
       (wevt'.op = "delete" /\ wevt'.command = c /\ wevt'.inv[1][1] = id)
       => /\ wevt'.payload # "TypeError"
          /\ replies'[c].list =
               SelectSeq(replies[c].list, LAMBDA r : r.id # id)
          /\ \A c2 \in Commands \ {c} : replies'[c2] = replies[c2]
          /\ (\A j \in 1..Len(replies[c].list) : replies[c].list[j].id # id)
               => replies' = replies]_vars

\* ------------------------------------------------------------------ C27
\* C27: when a worker message is dispatched the once records of its command
\* leave the registry before any callback runs: a once listener that a
\* callback registers for the command during the dispatch is not invoked
\* for this message, stays registered, and is invoked for the next message
\* with the command (as every record the registry holds when a message of
\* its command arrives at a listening page).
C27_OnceBeforeCallbacks ==
  [][wevt'.op = "message" =>
       LET c == wevt'.command
       IN /\ \A k \in 1..Len(wevt'.inv) : wevt'.inv[k][1] < nextRecord
          /\ \A id \in nextRecord..(nextRecord' - 1) :
               \E j \in 1..Len(replies'[c].list) : replies'[c].list[j].id = id
          /\ msgObservers > 0 =>
               \A j \in 1..Len(replies[c].list) :
                 Invocations(wevt'.inv, replies[c].list[j].id) >= 1]_vars

\* ------------------------------------------------------------------ C28
\* C28: when two SERVICE_WORKER_QUERY requests for the same inner topic are
\* outstanding in the helper (both were posted to the worker), the first
\* worker message with that command consumes the once listeners of both:
\* both requests are answered, under their own ids, with the payload of
\* that message, and a further worker message on the topic is relayed to no
\* one.
C28_SameTopicRace ==
  [][(wevt'.op = "message" /\ wevt'.command = "c1") =>
       LET records == replies["c1"].list
       IN /\ (Len(records) = 2 /\ \A j \in 1..2 : Forwarded(records[j])) =>
               /\ replies'["c1"].list = <<>>
               /\ \A j \in 1..2 :
                    \E n \in 1..Len(ToPage') :
                      ToPage'[n] = ReplyEnvelope(records[j].callback, wevt'.payload)
          /\ Len(records) = 0 => portq' = portq]_vars

\* both queries of the AMP page were answered with the payload of the one
\* worker message
C28_BothAnswered ==
  /\ Len(queries) = 2
  /\ \A k \in 1..2 : Outcome(k) = [state |-> "resolved", value |-> "p1"]

\* ------------------------------------------------------------------ C29
\* the request the helper frame handles in this step lacks a field that
\* its handler requires
Malformed(env) ==
  \/ /\ env.topic = SERVICE_WORKER_QUERY
     /\ env.data.isNull \/ env.data.topic = "undefined"
  \/ /\ env.topic = SERVICE_WORKER_REGISTRATION
     /\ \/ env.data.isNull
        \/ env.data.workerUrl = "undefined"
        \/ env.data.registrationOptions = "undefined"

\* C29: a SERVICE_WORKER_QUERY request without a topic, or a
\* SERVICE_WORKER_REGISTRATION request that lacks workerUrl or
\* registrationOptions, makes the handler throw before any side effect: no
\* once listener is registered, nothing is posted to the worker or queued
\* for it, register() is not called and no reply envelope is sent.
C29_ThrowsBeforeEffects ==
  [][((HelperHandles(SERVICE_WORKER_QUERY) \/ HelperHandles(SERVICE_WORKER_REGISTRATION))
        /\ Malformed(evt'.env))
       => /\ thrown'["B"]
          /\ replies' = replies
          /\ nextRecord' = nextRecord
          /\ posted' = posted
          /\ waits' = waits
          /\ registrations' = registrations
          /\ ToPage' = ToPage]_vars

\* C29 witness: the helper frame has handled a query without a topic, and
\* its handler threw.
C29_Witness ==
  /\ evt.op = "portmsg" /\ evt.m = "B"
  /\ evt.env.topic = SERVICE_WORKER_QUERY /\ ~evt.env.isReply
  /\ ~evt.env.data.isNull /\ evt.env.data.topic = "undefined"
  /\ evt.inv = <<"onAmpPageMessageReceived_ServiceWorkerQuery">>
  /\ thrown["B"]

\* ------------------------------------------------------------------ C30
\* the helper frame holds a once listener of a SERVICE_WORKER_QUERY request
\* that the worker has not answered
QueryWaiting == \E c \in Commands : replies[c].list # <<>>

\* C30: the helper answers a NOTIFICATION_PERMISSION_STATE and a
\* SERVICE_WORKER_STATE request while it handles the request, whether or not
\* a worker controls the frame and whether or not SERVICE_WORKER_QUERY
\* requests are waiting for the worker: the reply envelope, with the
\* request's id, leaves in the same step, and nothing is posted to the
\* worker, queued for it or registered for its messages.
C30_AnsweredLocally ==
  [][\A topic \in {NOTIFICATION_PERMISSION_STATE, SERVICE_WORKER_STATE} :
       HelperHandles(topic)
       => /\ ToPage' = Append(ToPage,
                              ReplyEnvelope(<<evt'.env.id, topic>>,
                                            IF topic = SERVICE_WORKER_STATE
                                            THEN StateOf(controller)
                                            ELSE permission))
          /\ posted' = posted
          /\ waits' = waits
          /\ replies' = replies]_vars

\* C30 witness: while no worker controlled the frame and a query of the
\* worker was waiting, a permission request has been answered.
C30_Witness ==
  /\ evt.op = "portmsg" /\ evt.m = "B"
  /\ evt.env.topic = NOTIFICATION_PERMISSION_STATE /\ ~evt.env.isReply
  /\ controller = 0
  /\ QueryWaiting
  /\ ToPage # <<>>
  /\ ToPage[Len(ToPage)] =
       ReplyEnvelope(<<evt.env.id, NOTIFICATION_PERMISSION_STATE>>, permission)

\* the ports that the popup messengers of the AMP page have bound, in the
\* order the instances were made
PopupPorts ==
  [g \in 1..(Len(former) + 1) |->
     IF g <= Len(former) THEN former[g].messagePort ELSE messagePort["B"]]

\* C31: no message port is bound by two WindowMessenger instances: whatever
\* the sequence of subscribe() calls and popup handshakes, a port that a
\* handshake transferred is the messagePort of at most one of the popup
\* messengers the AMP page made.
C31_PortAdoptedOnce ==
  \A g, h \in DOMAIN PopupPorts :
    (g # h /\ IsPort(PopupPorts[g])) => PopupPorts[g] # PopupPorts[h]

\* C32: once a non-null controller is in state 'activated', every promise
\* that waitUntilWorkerControlsPage() returned before is resolved, also when
\* the controller was present but not yet activated at the call and was
\* activated without a controllerchange.  The events run their listeners in
\* the step in which they happen, and nothing obliges a further event: a
\* promise that is pending in such a state may stay pending forever.
C32_ResolvedOnceControlled ==
  Controlled => \A i \in 1..Len(waits) : waits[i].state = "resolved"

\* C33: the worker receives the messages in the order of the unicast()
\* calls: every call posts once at most, and when the message of a call is
\* posted the message of every earlier call was posted before it, whether
\* the calls were made while the page was controlled or not.
C33_PostedInCallOrder ==
  /\ \A i \in 1..Len(waits) :
       waits[i].kind = "unicast" => Cardinality(PostedBy(i)) <= 1
  /\ \A k \in 1..Len(posted) : \A i \in 1..(posted[k].by - 1) :
       waits[i].kind = "unicast" => \E j \in 1..(k - 1) : posted[j].by = i

\* C34: in the helper frame the message observer of the worker messenger is
\* attached before any unicast message is posted to the worker: whenever a
\* message was posted an observer is attached, so no reply of the worker to
\* a forwarded query can arrive while none is.
C34_ObserverBeforePost ==
  posted # <<>> => msgObservers >= 1

\* the port still has a handler that connect() attached: the next envelope
\* it delivers is taken as the handshake
AwaitsHandshake(p) ==
  \E i \in 1..Len(handlers[p]) : handlers[p][i].kind = "connect"

\* C35: the first envelope a listening messenger sends over a port it has
\* bound is its CONNECT_HANDSHAKE, so the envelope that a port of the
\* connecting side hands to the handler of connect() is never an application
\* message or a reply.
C35_HandshakeFirst ==
  \A p \in Ports :
    (AwaitsHandshake(p) /\ portq[p] # <<>>)
      => (Head(portq[p]).topic = CONNECT_HANDSHAKE /\ ~Head(portq[p]).isReply)

\* the promises of the send() calls that m, in the connecting role, made
\* before its handshake was answered, by their place in promises[m]
EarlyRequests(m) ==
  {r \in 1..Len(promises[m]) :
     /\ promises[m][r].kind = "send"
     /\ ~promises[m][r].connected
     /\ connectCalls[m] # <<>>
     /\ listenCalls[m] = <<>>}

\* the envelope is the request of one of these calls
IsEarlyRequest(m, env) ==
  /\ ~env.isReply
  /\ \E r \in EarlyRequests(m) : promises[m][r].id = env.id

\* C36: a request that the connecting side sends after connect() and before
\* the handshake was answered is not lost.  The call queues its envelope at
\* the far end of the channel; the envelope leaves that queue only when the
\* other side's port delivers it, and then every listener the other side
\* has for the topic is invoked; the reply that carries the request's id,
\* and nothing else, resolves the promise with its data, at a moment when
\* the sender is connected; and when the listener has accepted the
\* handshake no such request stays in the queue of the port it bound.
C36_EarlyRequestDelivered ==
  /\ [][ \A m \in M : \A r \in EarlyRequests(m)' \ EarlyRequests(m) :
           \E n \in 1..Len(portq'[Peer(messagePort[m])]) :
             /\ portq'[Peer(messagePort[m])][n].id = promises'[m][r].id
             /\ ~portq'[Peer(messagePort[m])][n].isReply ]_vars
  /\ [][ \A m \in M : \A q \in Ports :
           (/\ portq[q] # <<>>
            /\ IsEarlyRequest(m, Head(portq[q]))
            /\ (portq'[q] = <<>> \/ Head(portq'[q]) # Head(portq[q])))
             => /\ evt'.op = "portmsg"
                /\ evt'.m = Other(m)
                /\ evt'.env = Head(portq[q])
                /\ evt'.inv =
                     (IF listeners[Other(m)][Head(portq[q]).topic] = NoListeners
                      THEN <<>>
                      ELSE listeners[Other(m)][Head(portq[q]).topic]) ]_vars
  /\ [][ \A m \in M : \A r \in EarlyRequests(m) :
           promises[m][r].state = "pending"
             => ((promises'[m][r].state = "resolved")
                   <=> (/\ evt'.op = "portmsg" /\ evt'.m = m
                        /\ evt'.env.isReply
                        /\ evt'.env.id = promises[m][r].id))
                /\ (promises'[m][r].state = "resolved"
                      => /\ connected[m]
                         /\ promises'[m][r].value = evt'.env.data) ]_vars

\* a request sent after connect() and before the handshake was answered went
\* through: the listener accepted the handshake, its listener for the topic
\* was handed the request, and the reply has resolved the promise of the
\* now connected sender
C36_Answered ==
  \E m \in M : \E r \in EarlyRequests(m) :
    /\ promises[m][r].state = "resolved"
    /\ promises[m][r].value = "d2"
    /\ connected[m] /\ connected[Other(m)]
    /\ connectCalls[m][1].promise = "resolved"
    /\ <<promises[m][r].id, "t1">> \in held[Other(m)]

\* the r-th promise of m belongs to an application request: a send() on a
\* topic other than the handshake
IsRequest(m, r) ==
  /\ promises[m][r].kind = "send"
  /\ promises[m][r].id \in DOMAIN messages[m]
       => messages[m][promises[m][r].id].topic # CONNECT_HANDSHAKE

\* both sides are connected, nothing is on its way and every application
\* request was answered
Quiescent ==
  /\ \A m \in M : connected[m] /\ winq[m] = <<>>
  /\ \A p \in Ports : portq[p] = <<>>
  /\ \A m \in M : \A r \in 1..Len(promises[m]) :
       IsRequest(m, r) => promises[m][r].state = "resolved"

\* C37: the pending-exchange map holds only application requests that still
\* await their reply: in a quiescent state the maps of both messengers are
\* empty.
C37_PendingMapsEmpty ==
  Quiescent => \A m \in M : DOMAIN messages[m] = {}

\* the port that the k-th connect() call of m put into its handshake
OfferedPort(m, k) == Peer(connectCalls[m][k].port)

\* the window messages that carry this port and are still to be delivered
InTransit(q) ==
  {<<r, n>> \in M \X (1..MaxCalls) : n <= Len(winq[r]) /\ winq[r][n].port = q}

\* The handshake of the k-th connect() call of m is gone: it is in no
\* window's queue and no messenger has bound the port it carried.  The
\* browser dropped it for its target origin, or the window it was delivered
\* to had no observer that accepted it.
Lost(m, k) ==
  /\ InTransit(OfferedPort(m, k)) = {}
  /\ handlers[OfferedPort(m, k)] = <<>>
  /\ \A r \in M : messagePort[r] # OfferedPort(m, k)

\* C38: connect() posts one CONNECT_HANDSHAKE window message and never
\* posts it again.  Only a connect() call that is given a window posts a
\* handshake, exactly one, and the port it carries is in transit once at
\* most.  When that message is gone without having been accepted it stays
\* gone: the promise of the call is never resolved and, unless the
\* application makes a further connect() or listen() call, connected stays
\* false, whatever the remote side does later.
C38_NoRetransmission ==
  /\ [][ \A m \in M :
           IF /\ evt'.op = "connect" /\ evt'.m = m
              /\ Len(connectCalls'[m]) = Len(connectCalls[m]) + 1
              /\ evt'.res # "Provide a valid Window context to connect to."
           THEN hsWinSent'[m] = hsWinSent[m] + 1
           ELSE hsWinSent'[m] = hsWinSent[m] ]_vars
  /\ [](\A m \in M : \A k \in 1..Len(connectCalls[m]) :
          /\ Cardinality(InTransit(OfferedPort(m, k))) <= 1
          /\ Lost(m, k) => connectCalls[m][k].promise # "resolved"
          /\ (Lost(m, k) /\ Len(connectCalls[m]) = 1 /\ listenCalls[m] = <<>>)
               => ~connected[m])
  /\ [][ \A m \in M : \A k \in 1..Len(connectCalls[m]) :
           Lost(m, k) => /\ Lost(m, k)'
                         /\ connectCalls'[m][k].promise = connectCalls[m][k].promise ]_vars

\* C38 witness: the handshake of m's only connect() call was delivered while
\* the other side had no observer; the other side listens now, for the
\* origin of m, and m is neither connected nor is its promise settled.
C38_Witness ==
  \E m \in M :
    /\ Len(connectCalls[m]) = 1 /\ listenCalls[m] = <<>>
    /\ Lost(m, 1)
    /\ hsWinSent[m] = 1
    /\ connectCalls[m][1].promise = "pending"
    /\ ~connected[m]
    /\ evt.op = "listen" /\ evt.m = Other(m) /\ evt.res = "pending"
    /\ winObs[Other(m)] # <<>>
    /\ ListedBySome(Other(m), Url(WinOrigin(m), ""))

\* the reply envelopes that answer the requests behind these listener
\* records with the payload, in the order of the records
Relayed(records, payload) ==
  [j \in 1..Len(records) |-> ReplyEnvelope(records[j].callback, payload)]

\* C39: the helper frame relays a worker message to the AMP page only for
\* the outstanding SERVICE_WORKER_QUERY requests of its command.  A worker
\* message whose command has no outstanding query, or that finds no observer
\* attached, puts no envelope into any queue; otherwise exactly one reply
\* envelope per outstanding query of the command is sent, with the request's
\* id and the worker's payload, and the queries of the command are no longer
\* outstanding, so that the next worker message of the command relays nothing.
C39_RelayOnlyOutstanding ==
  [][ wevt'.op = "message" =>
        LET records == replies[wevt'.command].list
        IN IF records = <<>> \/ msgObservers = 0
           THEN portq' = portq /\ replies' = replies
           ELSE /\ ToPage' = ToPage \o Relayed(records, wevt'.payload)
                /\ \A p \in Ports \ {Peer(messagePort["B"])} : portq'[p] = portq[p]
                /\ replies'[wevt'.command].list = <<>>
                /\ \A c \in Commands \ {wevt'.command} : replies'[c] = replies[c] ]_vars

\* C39 witness: the AMP page's query of a command was answered with the
\* payload of one worker message, and a further worker message of that
\* command has just been delivered to the attached observer: it invoked no
\* listener and no envelope is on its way.
C39_Witness ==
  \E k \in 1..Len(queries) :
    /\ queries[k].topic = SERVICE_WORKER_QUERY
    /\ Outcome(k) = [state |-> "resolved", value |-> "p1"]
    /\ wevt.op = "message" /\ wevt.command = queries[k].message.topic
    /\ wevt.payload = "p2"
    /\ wevt.inv = <<>>
    /\ msgObservers = 1
    /\ \A p \in Ports : portq[p] = <<>>

\* ------------------------------------------------------------------ C40
\* the 'amp-web-push-subscribe' queries among the AMP page's helper queries
SubscribeQueries ==
  {k \in 1..Len(queries) :
     /\ queries[k].topic = SERVICE_WORKER_QUERY
     /\ queries[k].message.topic = SUBSCRIBE}

\* This step lets the AMP page observe the permission 'granted': the popup
\* channel delivers the dialog's message with it, or the helper's reply with
\* it settles the permission query that the resumed attempt awaits.
ObservesGranted ==
  \/ PopupOpened /\ Interacts /\ evt'.env.data = "granted"
  \/ /\ HelperLoaded
     /\ interacted.state = "resuming"
     /\ queryOutcome(State, interacted.q).state = "pending"
     /\ queryOutcome(State', interacted.q) = [state |-> "resolved", value |-> "granted"]

\* C40: subscribeForPushRemotely_() is called only in a step in which the
\* AMP page observes the permission 'granted', at most once per attempt, and
\* in a resumed attempt the subscribe queries sent to the helper are those
\* calls; once 'denied' or 'default' was observed the observation stays and
\* no subscribe query was or will be sent.
C40_SubscribeOnlyGranted ==
  /\ [][ interacted'.sent # interacted.sent
           => ObservesGranted /\ interacted'.sent = 1 ]_vars
  /\ [](interacted.sent > 0 => interacted.permission = "granted")
  /\ [](Cardinality(SubscribeQueries)
          = IF HelperLoaded THEN interacted.sent ELSE 0)
  /\ [](interacted.permission \in {"denied", "default"}
          => interacted.sent = 0 /\ SubscribeQueries = {})
  /\ [][ interacted.permission \in {"denied", "default"}
           => interacted'.permission = interacted.permission ]_vars

\* C40 witness: the resumed attempt read 'granted' from the helper and sent
\* the subscribe query.
C40_Witness ==
  /\ HelperLoaded
  /\ interacted.permission = "granted"
  /\ interacted.sent = 1
  /\ SubscribeQueries # {}

\* the popup reported 'granted' and subscribeForPushRemotely_() was called
C40_PopupGranted ==
  /\ PopupOpened
  /\ interacted.permission = "granted"
  /\ interacted.replies = 1
  /\ interacted.sent = 1

\* an attempt observed 'denied' or 'default' and has finished
C40_Refused ==
  /\ interacted.permission \in {"denied", "default"}
  /\ interacted.state = "resolved"

====
